---- MODULE Spec2Model ----
(***************************************************************************)
(* Verification-Bot: per-guild settings store, /setup commands, welcome    *)
(* deduplication, verification-button codec and the button dispatcher.     *)
(* Modelled from src/unnamed/part_000, lines 522-1519 (the latest          *)
(* revision of index.js).                                                  *)
(***************************************************************************)
EXTENDS Integers, Sequences, FiniteSets, TLC

VARIABLES
    guildSettings,   \* in-memory store: guild id -> config record (line 582)
    disk,            \* contents of guildSettings.json
    cmdReply,        \* reply of the last /setup command
    ncmds,           \* number of /setup commands handled so far
    roleMeta,        \* guild.roles.cache: role id -> existence, managed flag, position
    bot,             \* guild.members.me: Manage Roles permission, highest role position
    member,          \* guild members: membership, join timestamp, pending flag, roles
    clock,           \* number of join events so far
    welcomedJoinKey, \* Map `${guildId}:${userId}` -> joinedTimestamp (line 799)
    timers,          \* deferred welcome checks scheduled by setTimeout
    nvAdds,          \* role-add requests of the join handler still in flight
    wproc,           \* maybePostWelcome invocations suspended at an await
    wlog,            \* what the last maybePostWelcome invocation decided at its start
    posts,           \* welcome messages sent, per (guild, user, join timestamp)
    mproc,           \* MessageCreate handlers suspended at an await
    nmsgs,           \* number of message events handled so far
    mlog,            \* per message: staff channel fetched, buttons of each send call
    prompts,         \* staff prompts: source message id -> buttons and result line
    submissions,     \* submission messages present in the verification channel
    click,           \* button-click handlers: position, inputs, reply, effects
    nclicks,         \* number of button clicks handled so far
    ev,              \* the gateway events handled so far: kind and guild
    pin,             \* inputs of the pure-function specifications
    pout,            \* outputs of the pure-function specifications
    pphase           \* progress of the pure-function specifications

storeVars   == <<guildSettings, disk, cmdReply, ncmds>>
envVars     == <<roleMeta, bot>>
pureVars    == <<pin, pout, pphase>>
welcomeVars == <<clock, welcomedJoinKey, timers, nvAdds, wproc, wlog, posts>>
msgVars     == <<mproc, nmsgs, mlog>>
clickVars   == <<prompts, submissions, click, nclicks>>
vars        == <<guildSettings, disk, cmdReply, ncmds, roleMeta, bot,
                 member, clock, welcomedJoinKey, timers, nvAdds, wproc, wlog, posts,
                 mproc, nmsgs, mlog, prompts, submissions, click, nclicks, ev,
                 pin, pout, pphase>>
\* everything but the settings store and the pure-function variables
handlerVars == <<member, welcomeVars, msgVars, clickVars, ev>>

-----------------------------------------------------------------------------
(* Bounds *)

MaxCmds == 2        \* number of /setup commands in one behaviour
MaxPos  == 3        \* role positions range over 1..MaxPos
MaxIdx  == 11       \* largest role-set index put into a token
MaxJoins == 2       \* number of join events in one behaviour
MaxClicks == 2      \* number of button clicks in one behaviour
MaxMsgs == 1        \* number of message events in one behaviour
MaxEvents == 3      \* joins, messages and clicks in one behaviour of SpecQuiet
MaxSets == 2        \* length of verifyRoles in the configurations of SpecResolve

-----------------------------------------------------------------------------
(* Values *)

Guilds   == {"g1", "g2"}
Channels == {"C1", "C2"}
Undef    == "undefined"     \* the JavaScript value undefined
Null     == "null"          \* the JavaScript value null (an omitted option)

\* role ids; a role's name is modelled by its id
AssignRoles == {"R1", "R2"}
NVRole      == "RNV"
ModRole     == "RMOD"

-----------------------------------------------------------------------------
(* Strings as sequences of one-character strings *)

Colon      == ":"
DigitChars == <<"0", "1", "2", "3", "4", "5", "6", "7", "8", "9">>
UndefinedS == <<"undefined">>   \* undefined where a string is expected
NaN        == -1

IsDigit(ch) == \E i \in 1..10 : DigitChars[i] = ch
DigitVal(ch) == (CHOOSE i \in 1..10 : DigitChars[i] = ch) - 1

RECURSIVE ToStr(_)
\* template-literal conversion `${index}` of a non-negative integer
ToStr(n) == IF n < 10 THEN <<DigitChars[n + 1]>>
            ELSE ToStr(n \div 10) \o <<DigitChars[(n % 10) + 1]>>

RECURSIVE DigitsValue(_)
DigitsValue(s) == IF s = <<>> THEN 0
                  ELSE DigitsValue(SubSeq(s, 1, Len(s) - 1)) * 10 + DigitVal(s[Len(s)])

\* Number(x) on the strings that occur here: "" is 0, undefined and any
\* string with a non-digit are NaN
NumberOf(s) == IF s = UndefinedS THEN NaN
               ELSE IF \A i \in 1..Len(s) : IsDigit(s[i]) THEN DigitsValue(s)
               ELSE NaN

RECURSIVE Join(_)
\* the template literals `a:${b}:${c}` join their fields with ':'
Join(fields) == IF Len(fields) = 0 THEN <<>>
                ELSE IF Len(fields) = 1 THEN fields[1]
                ELSE fields[1] \o <<Colon>> \o Join(Tail(fields))

RECURSIVE Split(_)
\* String.prototype.split(':')
Split(s) == IF \A i \in 1..Len(s) : s[i] # Colon THEN <<s>>
            ELSE LET i == CHOOSE k \in 1..Len(s) :
                            s[k] = Colon /\ \A j \in 1..(k - 1) : s[j] # Colon
                 IN  <<SubSeq(s, 1, i - 1)>> \o Split(SubSeq(s, i + 1, Len(s)))

\* parts[i] of a JavaScript array (0-based); undefined past the end
Part(parts, i) == IF i >= 0 /\ i + 1 <= Len(parts) THEN parts[i + 1] ELSE UndefinedS

StartsWith(s, p) == Len(s) >= Len(p) /\ SubSeq(s, 1, Len(p)) = p

TagAssignSet == <<"a", "s", "s", "i", "g", "n", "s", "e", "t">>
TagDeny      == <<"d", "e", "n", "y">>
TagHelp      == <<"h", "e", "l", "p">>

\* user ids and message ids (snowflakes: digit strings)
U1 == <<"4", "1">>
U2 == <<"4", "2">>
U3 == <<"7">>
M1 == <<"9", "0">>
M2 == <<"9", "1">>
M3 == <<"8">>
\* prompts posted before the behaviour starts are about these messages
P1 == <<"5", "0">>
P2 == <<"5", "1">>
UserIds == {U1, U2, U3}
MsgIds  == {M1, M2, M3}

-----------------------------------------------------------------------------
(* Verification Button Codec *)

\* customId of an assign button
EncodeAssignSet(index, messageId, authorId) ==
    TagAssignSet \o <<Colon>> \o ToStr(index) \o <<Colon>> \o messageId
                 \o <<Colon>> \o authorId

\* customId of the deny button
EncodeDeny(messageId, authorId) ==
    TagDeny \o <<Colon>> \o messageId \o <<Colon>> \o authorId

\* customId of the help button
EncodeHelp(memberId) == TagHelp \o <<Colon>> \o memberId

IsHelp(customId) == StartsWith(customId, TagHelp \o <<Colon>>)

Decode_denyShifted(customId) ==
    LET parts == Split(customId) IN
    IF IsHelp(customId)
    THEN [action |-> TagHelp, setIndex |-> NaN,
          messageId |-> UndefinedS, targetUserId |-> Part(parts, 1)]
    ELSE IF Part(parts, 0) = TagAssignSet
    THEN [action |-> TagAssignSet, setIndex |-> NumberOf(Part(parts, 1)),
          messageId |-> Part(parts, 2), targetUserId |-> Part(parts, 3)]
    ELSE IF Part(parts, 0) = TagDeny
    THEN [action |-> TagDeny, setIndex |-> NaN,
          messageId |-> Part(parts, 2), targetUserId |-> Part(parts, 3)]
    ELSE [action |-> Part(parts, 0), setIndex |-> NaN,
          messageId |-> UndefinedS, targetUserId |-> UndefinedS]

\* what the button handler reads out of a customId
Decode(customId) ==
    LET parts == Split(customId) IN
    IF IsHelp(customId)
    THEN [action |-> TagHelp, setIndex |-> NaN,
          messageId |-> UndefinedS, targetUserId |-> Part(parts, 1)]
    ELSE IF Part(parts, 0) = TagAssignSet
    THEN [action |-> TagAssignSet, setIndex |-> NumberOf(Part(parts, 1)),
          messageId |-> Part(parts, 2), targetUserId |-> Part(parts, 3)]
    ELSE IF Part(parts, 0) = TagDeny
    THEN [action |-> TagDeny, setIndex |-> NaN,
          messageId |-> Part(parts, 1), targetUserId |-> Part(parts, 2)]
    ELSE [action |-> Part(parts, 0), setIndex |-> NaN,
          messageId |-> UndefinedS, targetUserId |-> UndefinedS]

-----------------------------------------------------------------------------
(* Roles of the guild and the bot's own member *)

Roles == AssignRoles \cup {NVRole, ModRole}

RoleOK      == [exists |-> TRUE,  managed |-> FALSE, position |-> 1]
RoleDeleted == [exists |-> FALSE, managed |-> FALSE, position |-> 1]
RoleManaged == [exists |-> TRUE,  managed |-> TRUE,  position |-> 1]
RoleEqual   == [exists |-> TRUE,  managed |-> FALSE, position |-> 2]
RoleAbove   == [exists |-> TRUE,  managed |-> FALSE, position |-> MaxPos]

AllRolesOK == [r \in Roles |-> RoleOK]

\* the role metadata the specifications start from
RoleWorlds ==
    {AllRolesOK}
    \cup {[AllRolesOK EXCEPT !["R2"] = m] : m \in {RoleDeleted, RoleManaged, RoleEqual, RoleAbove}}
    \cup {[AllRolesOK EXCEPT !["R1"] = RoleDeleted, !["R2"] = RoleDeleted],
          [AllRolesOK EXCEPT ![NVRole] = RoleDeleted]}

BotWorlds == {[manageRoles |-> TRUE,  highest |-> 2],
              [manageRoles |-> FALSE, highest |-> 2]}

EnvInit == roleMeta \in RoleWorlds /\ bot \in BotWorlds

\* the role metadata of the specifications that do not read it
EnvFixed == roleMeta = AllRolesOK /\ bot = [manageRoles |-> TRUE, highest |-> 2]

-----------------------------------------------------------------------------
(* Idle values of the handler state *)

MemberIds  == {U1, U2}
\* ts: joinedTimestamp of the current (or last) membership; the timestamps of
\* the successive joins of one user are 1, 2, ...
NotMember  == [inGuild |-> FALSE, ts |-> 0, pending |-> FALSE, roles |-> {}]
JoinKeys   == Guilds \X MemberIds
NoStart    == [guild |-> "none", user |-> <<>>, ts |-> 0, gate |-> "none"]
NoEvent    == {}
Clicks     == {"c1", "c2"}

\* a button-click handler that is not running. pc: the await the handler is
\* suspended at; target: what the fetch of the target member returned;
\* fetched .. helpSent: the platform effects of this click; failed: some
\* platform call of this click failed or an exception was thrown
IdleClick ==
    [pc |-> "idle", guild |-> "none", prompt |-> <<>>, customId |-> <<>>,
     by |-> <<>>, perm |-> "none", cfg |-> <<>>, target |-> "none",
     rolesToAdd |-> <<>>, reply |-> "none", fetched |-> FALSE, added |-> {},
     removedNV |-> FALSE, deleted |-> FALSE, edited |-> FALSE, dm |-> "none",
     helpSent |-> FALSE, failed |-> FALSE]

WelcomeIdle ==
    /\ clock = 0
    /\ welcomedJoinKey = <<>>
    /\ timers = {}
    /\ nvAdds = {}
    /\ wproc = {}
    /\ wlog = NoStart
    /\ posts = <<>>

MsgIdle == mproc = {} /\ nmsgs = 0 /\ mlog = <<>>

ClickIdle ==
    /\ prompts = <<>>
    /\ submissions = {}
    /\ click = [c \in Clicks |-> IdleClick]
    /\ nclicks = 0

HandlersIdle ==
    /\ member = [k \in JoinKeys |-> NotMember]
    /\ WelcomeIdle
    /\ MsgIdle
    /\ ClickIdle
    /\ ev = NoEvent

-----------------------------------------------------------------------------
(* Settings Store *)

NoConfig == <<>>     \* {} : a record with no field

\* config?.field for the string-valued fields
Get(cfg, f) == IF f \in DOMAIN cfg THEN cfg[f] ELSE Undef

Truthy(v) == v \notin {Undef, Null, ""}

VerifyRolesOf_none(cfg) == <<>>

\* Array.isArray(config.verifyRoles) ? config.verifyRoles : []
VerifyRolesOf(cfg) == IF "verifyRoles" \in DOMAIN cfg THEN cfg["verifyRoles"] ELSE <<>>

\* { ...existing, ...partial }
Spread(existing, partial) ==
    [f \in DOMAIN existing \cup DOMAIN partial |->
        IF f \in DOMAIN partial THEN partial[f] ELSE existing[f]]

getGuildConfig_anyGuild(settings, guildId) ==
    IF settings = <<>> THEN NoConfig ELSE settings[CHOOSE h \in DOMAIN settings : TRUE]

\* guildSettings[guildId]
getGuildConfig(settings, guildId) ==
    IF guildId \in DOMAIN settings THEN settings[guildId] ELSE NoConfig

HasConfig_always(settings, guildId) == TRUE

\* the test `if (!config) return` on the result of getGuildConfig
HasConfig(settings, guildId) == guildId \in DOMAIN settings

updateGuildConfig_replace(settings, guildId, partial) ==
    [h \in DOMAIN settings \cup {guildId} |->
        IF h = guildId THEN partial ELSE settings[h]]

\* guildSettings[guildId] = { ...(guildSettings[guildId] || {}), ...partial }
updateGuildConfig(settings, guildId, partial) ==
    [h \in DOMAIN settings \cup {guildId} |->
        IF h = guildId THEN Spread(getGuildConfig(settings, guildId), partial)
        ELSE settings[h]]

\* JSON.stringify leaves out the properties whose value is undefined
Stringify(settings) ==
    [h \in DOMAIN settings |->
        [f \in {k \in DOMAIN settings[h] :
                    k = "verifyRoles" \/ settings[h][k] # Undef} |-> settings[h][f]]]

\* a file that fs.writeFileSync opened, and so emptied, and did not finish
\* writing: not the old contents, and not parseable as the new ones
Truncated == [truncated |-> TRUE]

\* saveSettings: fs.writeFileSync succeeds, or throws and is logged.  It
\* throws before the file is opened (the file is as it was) or after it was
\* opened for writing (the file is cut short).
saveSettings(settings, oldDisk) == {Stringify(settings), oldDisk, Truncated}

StoreInit == /\ guildSettings = <<>>
             /\ disk = <<>>
             /\ cmdReply = [guild |-> "none", sub |-> "none", kind |-> "none", roleIds |-> <<>>]
             /\ ncmds = 0

PureIdle == /\ pin = [kind |-> "none"]
            /\ pout = [kind |-> "none"]
            /\ pphase = 0

-----------------------------------------------------------------------------
(* updateGuildConfig applied twice to arbitrary partial records *)

PFields == {"staffChannelId", "modRoleId", "welcomeTitle"}
PVals   == {"v1", Undef}
Partials == UNION {[S -> PVals] : S \in SUBSET PFields}
StartCfgs == {[welcomeTitle |-> "v0", welcomeMode |-> "text"],
              [staffChannelId |-> "v0"]}

UpdInit ==
    /\ \E g \in Guilds, p1 \in Partials, p2 \in Partials,
          start \in {<<>>} \cup {[h \in {k} |-> c] : k \in Guilds, c \in StartCfgs} :
            /\ pin = [kind |-> "update", g |-> g, p1 |-> p1, p2 |-> p2, start |-> start]
            /\ guildSettings = start
            /\ disk = Stringify(start)
    /\ pout = [kind |-> "none"]
    /\ pphase = 0
    /\ cmdReply = [guild |-> "none", sub |-> "none", kind |-> "none", roleIds |-> <<>>]
    /\ ncmds = 0
    /\ EnvFixed
    /\ HandlersIdle

UpdateFirst ==
    /\ pin.kind = "update" /\ pphase = 0
    /\ guildSettings' = updateGuildConfig(guildSettings, pin.g, pin.p1)
    /\ disk' \in saveSettings(guildSettings', disk)
    /\ pphase' = 1
    /\ UNCHANGED <<cmdReply, ncmds, envVars, handlerVars, pin, pout>>

UpdateSecond ==
    /\ pin.kind = "update" /\ pphase = 1
    /\ guildSettings' = updateGuildConfig(guildSettings, pin.g, pin.p2)
    /\ disk' \in saveSettings(guildSettings', disk)
    /\ pphase' = 2
    /\ UNCHANGED <<cmdReply, ncmds, envVars, handlerVars, pin, pout>>

UpdNext == UpdateFirst \/ UpdateSecond

SpecUpdate == UpdInit /\ [][UpdNext]_vars

\* C7: update(g, p1) followed by update(g, p2) yields a record holding every
\* field of p2 with p2's value, every field of p1 that p2 does not name with
\* p1's value, and every other field of the record as it was before; no
\* other guild's record changes.
C7_UpdateMerges ==
    (pin.kind = "update" /\ pphase = 2) =>
        LET before == getGuildConfig(pin.start, pin.g)
            rec    == guildSettings[pin.g]
        IN  /\ DOMAIN rec = DOMAIN before \cup DOMAIN pin.p1 \cup DOMAIN pin.p2
            /\ \A f \in DOMAIN pin.p2 : rec[f] = pin.p2[f]
            /\ \A f \in DOMAIN pin.p1 \ DOMAIN pin.p2 : rec[f] = pin.p1[f]
            /\ \A f \in DOMAIN before \ (DOMAIN pin.p1 \cup DOMAIN pin.p2) :
                    rec[f] = before[f]

\* two disjoint non-empty partials merged into an existing record
C7_Witness ==
    /\ pin.kind = "update" /\ pphase = 2
    /\ DOMAIN pin.p1 # {} /\ DOMAIN pin.p2 # {}
    /\ DOMAIN pin.p1 \cap DOMAIN pin.p2 = {}
    /\ HasConfig(pin.start, pin.g)
    /\ DOMAIN pin.start[pin.g] \ (DOMAIN pin.p1 \cup DOMAIN pin.p2) # {}

-----------------------------------------------------------------------------
(* Encoding a token and decoding it again *)

ActionKinds == {"assignset", "deny", "help"}
TagOf(kind) == CASE kind = "assignset" -> TagAssignSet
                 [] kind = "deny"      -> TagDeny
                 [] kind = "help"      -> TagHelp

NoDecode == [action |-> <<>>, setIndex |-> NaN, messageId |-> <<>>, targetUserId |-> <<>>]

CodecInit ==
    /\ \E k \in ActionKinds, i \in 0..MaxIdx, m \in MsgIds, u \in UserIds :
          /\ k # "assignset" => i = 0
          /\ k = "help" => m = M1
          /\ pin = [kind |-> "codec", action |-> k, index |-> i,
                    messageId |-> m, userId |-> u]
    /\ pout = [kind |-> "codec", token |-> <<>>, dec |-> NoDecode]
    /\ pphase = 0
    /\ StoreInit
    /\ EnvFixed
    /\ HandlersIdle

\* the customId the program builds for a button
EncodeStep ==
    /\ pin.kind = "codec" /\ pphase = 0
    /\ pout' = [pout EXCEPT !.token =
                  CASE pin.action = "assignset" ->
                         EncodeAssignSet(pin.index, pin.messageId, pin.userId)
                    [] pin.action = "deny" -> EncodeDeny(pin.messageId, pin.userId)
                    [] pin.action = "help" -> EncodeHelp(pin.userId)]
    /\ pphase' = 1
    /\ UNCHANGED <<storeVars, envVars, handlerVars, pin>>

\* the button handler reads the customId back
DecodeStep ==
    /\ pin.kind = "codec" /\ pphase = 1
    /\ pout' = [pout EXCEPT !.dec = Decode(pout.token)]
    /\ pphase' = 2
    /\ UNCHANGED <<storeVars, envVars, handlerVars, pin>>

CodecNext == EncodeStep \/ DecodeStep

SpecCodec == CodecInit /\ [][CodecNext]_vars

\* C9: decoding an encoded token gives back the action, the role-set index
\* (assign-role-set only), the source message id (assign-role-set and deny)
\* and the user id that were encoded.
C9_RoundTrip ==
    (pin.kind = "codec" /\ pphase = 2) =>
        /\ pout.dec.action = TagOf(pin.action)
        /\ pout.dec.targetUserId = pin.userId
        /\ pin.action \in {"assignset", "deny"} => pout.dec.messageId = pin.messageId
        /\ pin.action = "assignset" => pout.dec.setIndex = pin.index

\* a two-digit index and two-character ids went through the round trip
C9_Witness ==
    /\ pin.kind = "codec" /\ pphase = 2
    /\ pin.action = "assignset" /\ pin.index >= 10
    /\ Len(pin.messageId) > 1 /\ Len(pin.userId) > 1

-----------------------------------------------------------------------------
(* /setup commands: each handler runs to its reply without awaiting *)

NoReply == [guild |-> "none", sub |-> "none", kind |-> "none", roleIds |-> <<>>]

Reply(g, sub, kind) == [guild |-> g, sub |-> sub, kind |-> kind, roleIds |-> <<>>]

\* updateGuildConfig(guildId, partial) followed by the reply
ApplyUpdate(g, partial, reply) ==
    /\ guildSettings' = updateGuildConfig(guildSettings, g, partial)
    /\ disk' \in saveSettings(guildSettings', disk)
    /\ cmdReply' = reply
    /\ ncmds' = ncmds + 1
    /\ UNCHANGED <<envVars, handlerVars, pureVars>>

ReplyOnly(reply) ==
    /\ cmdReply' = reply
    /\ ncmds' = ncmds + 1
    /\ UNCHANGED <<guildSettings, disk, envVars, handlerVars, pureVars>>

\* /setup outside a guild, or without the Manage Server permission
SetupRefused ==
    /\ ncmds < MaxCmds
    /\ \E g \in Guilds \cup {"none"}, kind \in {"server-only", "need-manage-server"} :
          /\ (g = "none") <=> (kind = "server-only")
          /\ ReplyOnly(Reply(g, "any", kind))

SetupVerification(g) ==
    /\ ncmds < MaxCmds
    /\ \E channel \in Channels :
          ApplyUpdate(g, [verificationChannelId |-> channel], Reply(g, "verification", "ok"))

SetupStaff(g) ==
    /\ ncmds < MaxCmds
    /\ \E channel \in Channels :
          ApplyUpdate(g, [staffChannelId |-> channel], Reply(g, "staff", "ok"))

\* roleA?.id ?? config.roleAId
OrStored(opt, config, f) == IF opt # Null THEN opt ELSE Get(config, f)

SetupRoles(g) ==
    /\ ncmds < MaxCmds
    /\ \E roleA \in {Null, "R1"}, roleB \in {Null, "R2"}, notVerified \in {Null, NVRole} :
          LET config == getGuildConfig(guildSettings, g) IN
          ApplyUpdate(g, [roleAId |-> OrStored(roleA, config, "roleAId"),
                          roleBId |-> OrStored(roleB, config, "roleBId"),
                          notVerifiedRoleId |-> OrStored(notVerified, config, "notVerifiedRoleId")],
                      Reply(g, "roles", "ok"))

SetupModrole(g) ==
    /\ ncmds < MaxCmds
    /\ ApplyUpdate(g, [modRoleId |-> ModRole], Reply(g, "modrole", "ok"))

SetupWelcome(g) ==
    /\ ncmds < MaxCmds
    /\ \E description \in {"D1"}, title \in {Null, "T1"}, mode \in {Null, "text"} :
          LET config == getGuildConfig(guildSettings, g) IN
          ApplyUpdate(g, [welcomeTitle |-> IF Truthy(title) THEN title ELSE Undef,
                          welcomeDescription |-> description,
                          welcomeMode |-> IF Truthy(mode) THEN mode
                                          ELSE IF Truthy(Get(config, "welcomeMode"))
                                               THEN Get(config, "welcomeMode")
                                               ELSE "embed"],
                      Reply(g, "welcome", "ok"))

\* [role1, role2, role3].filter(Boolean).map(r => r.id)
RoleIdsOf(role1, role2, role3) ==
    SelectSeq(<<role1, role2, role3>>, LAMBDA r : r # Null)

Includes(seq, x) == \E i \in 1..Len(seq) : seq[i] = x

HasIssues_managedOnly(roleIds) ==
    \/ ~bot.manageRoles
    \/ \E i \in 1..Len(roleIds) : roleMeta[roleIds[i]].managed

\* the pre-flight problems of a list of role ids (managed role, role not
\* below the bot's highest role, bot without Manage Roles)
HasIssues(roleIds) ==
    \/ ~bot.manageRoles
    \/ \E i \in 1..Len(roleIds) :
          \/ roleMeta[roleIds[i]].managed
          \/ roleMeta[roleIds[i]].position >= bot.highest

\* existing.some(vr => vr.roleIds.length === roleIds.length &&
\*                     vr.roleIds.every(id => roleIds.includes(id)))
IsDuplicate(existing, roleIds) ==
    \E i \in 1..Len(existing) :
        /\ Len(existing[i].roleIds) = Len(roleIds)
        /\ \A j \in 1..Len(existing[i].roleIds) : Includes(roleIds, existing[i].roleIds[j])

DefaultLabel(role) == CASE role = "R1" -> "Verify: R1"
                        [] role = "R2" -> "Verify: R2"
                        [] OTHER       -> "Verify: role"

SetupVerifyroleAdd(g) ==
    /\ ncmds < MaxCmds
    /\ \E role1 \in AssignRoles, role2 \in AssignRoles \cup {Null},
          role3 \in AssignRoles \cup {Null}, labelOpt \in {Null, "Vet"} :
          LET config   == getGuildConfig(guildSettings, g)
              roleIds  == RoleIdsOf(role1, role2, role3)
              label    == IF Truthy(labelOpt) THEN labelOpt ELSE DefaultLabel(role1)
              existing == VerifyRolesOf(config)
              echo(kind) == [guild |-> g, sub |-> "verifyrole_add", kind |-> kind,
                             roleIds |-> roleIds]
          IN  /\ \A i \in 1..Len(roleIds) : roleMeta[roleIds[i]].exists
              /\ IF HasIssues(roleIds) THEN ReplyOnly(echo("issues"))
                 ELSE IF IsDuplicate(existing, roleIds) THEN ReplyOnly(echo("duplicate"))
                 ELSE ApplyUpdate(g, [verifyRoles |->
                                        Append(existing, [roleIds |-> roleIds, label |-> label])],
                                  echo("ok"))

SetupVerifyroleClear(g) ==
    /\ ncmds < MaxCmds
    /\ ApplyUpdate(g, [verifyRoles |-> <<>>], Reply(g, "verifyrole_clear", "ok"))

SetupVerifyroleList(g) ==
    /\ ncmds < MaxCmds
    /\ ReplyOnly(Reply(g, "verifyrole_list",
                       IF Len(VerifyRolesOf(getGuildConfig(guildSettings, g))) = 0
                       THEN "empty" ELSE "list"))

SetupCommand(g) ==
    \/ SetupVerification(g)
    \/ SetupStaff(g)
    \/ SetupRoles(g)
    \/ SetupModrole(g)
    \/ SetupWelcome(g)
    \/ SetupVerifyroleAdd(g)
    \/ SetupVerifyroleClear(g)
    \/ SetupVerifyroleList(g)

\* the role metadata the /setup commands are checked against
StoreEnvInit ==
    \/ roleMeta = AllRolesOK /\ bot \in BotWorlds
    \/ /\ roleMeta \in {[AllRolesOK EXCEPT !["R2"] = m] : m \in {RoleManaged, RoleEqual}}
       /\ bot = [manageRoles |-> TRUE, highest |-> 2]

StoreSpecInit == /\ guildSettings = <<>>
                 /\ disk = <<>>
                 /\ cmdReply = NoReply
                 /\ ncmds = 0
                 /\ StoreEnvInit
                 /\ HandlersIdle
                 /\ PureIdle

StoreNext == SetupRefused \/ \E g \in Guilds : SetupCommand(g)

SpecStore == StoreSpecInit /\ [][StoreNext]_vars

SetOf(seq) == {seq[i] : i \in 1..Len(seq)}

\* C8: a /setup verifyrole_add that passes the role checks is refused as a
\* duplicate exactly when some stored entry has the same set of role ids as
\* the new entry, whatever the order and the repetitions among role_1..role_3;
\* a refusal leaves the stored verifyRoles unchanged.
C8_DuplicateIffSetEqual ==
    [][(cmdReply'.sub = "verifyrole_add" /\ ncmds' = ncmds + 1
                                         /\ cmdReply'.kind # "issues") =>
          LET stored == VerifyRolesOf(getGuildConfig(guildSettings, cmdReply'.guild))
          IN  /\ (cmdReply'.kind = "duplicate") <=>
                    \E i \in 1..Len(stored) :
                        SetOf(stored[i].roleIds) = SetOf(cmdReply'.roleIds)
              /\ cmdReply'.kind = "duplicate" => guildSettings' = guildSettings
      ]_vars

-----------------------------------------------------------------------------
(* Welcome flow: join, screening, leave, deferred check, maybePostWelcome *)

MapSet(f, k, v) == [x \in DOMAIN f \cup {k} |-> IF x = k THEN v ELSE f[x]]
MapDel(f, k)    == [x \in DOMAIN f \ {k} |-> f[x]]

\* a gateway event handed to its handler
Event(kind, g) == [kind |-> kind, guild |-> g]

\* the users whose joins are explored
WelcomeUsers == {U1}

\* a member object held by a timer or passed by an event
MemberRef(g, u, ts) == [guild |-> g, user |-> u, ts |-> ts]

WelcomeGate_hasKey(g, u, ts) ==
    LET config == getGuildConfig(guildSettings, g) IN
    IF ~Truthy(Get(config, "verificationChannelId")) THEN "noChannel"
    ELSE IF <<g, u>> \in DOMAIN welcomedJoinKey THEN "dedup"
    ELSE "pass"

\* maybePostWelcome up to its first await: configuration test, dedup test
WelcomeGate(g, u, ts) ==
    LET config == getGuildConfig(guildSettings, g) IN
    IF ~Truthy(Get(config, "verificationChannelId")) THEN "noChannel"
    ELSE IF <<g, u>> \in DOMAIN welcomedJoinKey /\ welcomedJoinKey[<<g, u>>] = ts THEN "dedup"
    ELSE "pass"

StartWelcome_noGate(src, g, u, ts) ==
    /\ wlog' = [guild |-> g, user |-> u, ts |-> ts, gate |-> "pass"]
    /\ wproc' = wproc \cup {[src |-> src, guild |-> g, user |-> u, ts |-> ts,
                              pc |-> "fetch"]}

\* maybePostWelcome(member) is called: it returns at once or suspends on the
\* channel fetch
StartWelcome(src, g, u, ts) ==
    LET gate == WelcomeGate(g, u, ts) IN
    /\ wlog' = [guild |-> g, user |-> u, ts |-> ts, gate |-> gate]
    /\ wproc' = IF gate = "pass"
                THEN wproc \cup {[src |-> src, guild |-> g, user |-> u, ts |-> ts,
                                  pc |-> "fetch"]}
                ELSE wproc

\* GuildMemberAdd: the member joins; the handler adds the not-verified role
\* (not awaited) and schedules the deferred welcome check
JoinEvent(g, u) ==
    /\ clock < MaxJoins
    /\ ~member[<<g, u>>].inGuild
    /\ \E pend \in BOOLEAN :
          member' = [member EXCEPT ![<<g, u>>] =
                        [inGuild |-> TRUE, ts |-> member[<<g, u>>].ts + 1,
                         pending |-> pend, roles |-> {}]]
    /\ clock' = clock + 1
    /\ LET config == getGuildConfig(guildSettings, g)
           nv     == Get(config, "notVerifiedRoleId")
       IN  IF ~HasConfig(guildSettings, g)
           THEN UNCHANGED <<nvAdds, timers>>
           ELSE /\ nvAdds' = IF Truthy(nv) /\ nv \in DOMAIN roleMeta /\ roleMeta[nv].exists
                             THEN nvAdds \cup {MemberRef(g, u, member[<<g, u>>].ts + 1)}
                             ELSE nvAdds
                /\ timers' = timers \cup {MemberRef(g, u, member[<<g, u>>].ts + 1)}
    /\ ev' = ev \cup {Event("join", g)}
    /\ UNCHANGED <<storeVars, envVars, welcomedJoinKey, wproc, wlog, posts,
                   msgVars, clickVars, pureVars>>

\* the role add of the join handler completes or fails
NvAddResolve ==
    \E r \in nvAdds :
        /\ nvAdds' = nvAdds \ {r}
        /\ LET k == <<r.guild, r.user>> IN
           \E ok \in BOOLEAN :
              member' = IF ok /\ member[k].inGuild /\ member[k].ts = r.ts
                        THEN [member EXCEPT ![k].roles = @ \cup {NVRole}]
                        ELSE member
        /\ UNCHANGED <<storeVars, envVars, clock, welcomedJoinKey, timers, wproc,
                       wlog, posts, msgVars, clickVars, ev, pureVars>>

\* the 30-second timer of a join fires
TimerFire ==
    \E t \in timers :
        /\ timers' = timers \ {t}
        /\ StartWelcome("timer", t.guild, t.user, t.ts)
        /\ UNCHANGED <<storeVars, envVars, member, clock, welcomedJoinKey, nvAdds,
                       posts, msgVars, clickVars, ev, pureVars>>

FinishedScreening_nowOnly(oldPending, newPending) == newPending # "true"

\* wasPending && !nowPending, both flags compared with === true
FinishedScreening(oldPending, newPending) == oldPending = "true" /\ newPending # "true"

\* GuildMemberUpdate: the member completes screening, or another property of
\* the member changes; the old snapshot may be a partial without pending flag
MemberUpdate(g, u) ==
    /\ member[<<g, u>>].inGuild
    /\ \E screening \in BOOLEAN, oldPartial \in BOOLEAN :
          LET m          == member[<<g, u>>]
              oldPending == IF oldPartial THEN Null
                            ELSE IF m.pending THEN "true" ELSE "false"
              newPending == IF screening THEN "false"
                            ELSE IF m.pending THEN "true" ELSE "false"
          IN  /\ screening => m.pending
              /\ member' = IF screening THEN [member EXCEPT ![<<g, u>>].pending = FALSE]
                           ELSE member
              /\ IF HasConfig(guildSettings, g) /\ FinishedScreening(oldPending, newPending)
                 THEN StartWelcome("update", g, u, m.ts)
                 ELSE UNCHANGED <<wproc, wlog>>
    /\ ev' = ev \cup {Event("update", g)}
    /\ UNCHANGED <<storeVars, envVars, clock, welcomedJoinKey, timers, nvAdds, posts,
                   msgVars, clickVars, pureVars>>

\* GuildMemberRemove: the member leaves; the handler clears the dedup entry
MemberRemove(g, u) ==
    /\ member[<<g, u>>].inGuild
    /\ member' = [member EXCEPT ![<<g, u>>] = [NotMember EXCEPT !.ts = member[<<g, u>>].ts]]
    /\ welcomedJoinKey' = MapDel(welcomedJoinKey, <<g, u>>)
    /\ ev' = ev \cup {Event("leave", g)}
    /\ UNCHANGED <<storeVars, envVars, clock, timers, nvAdds, wproc, wlog, posts,
                   msgVars, clickVars, pureVars>>

CanViewOutcomes_never(g, u, ts) == {FALSE}

\* channel.permissionsFor(member)?.has(ViewChannel): a pending member does not
\* see the channel; for a member object of a past membership the cached
\* permissions decide
CanViewOutcomes(g, u, ts) ==
    LET m == member[<<g, u>>] IN
    IF m.inGuild /\ m.ts = ts THEN {~m.pending} ELSE BOOLEAN

\* the channel fetch of maybePostWelcome returns; the visibility test and the
\* call of channel.send follow without an await
WelcomeFetched ==
    \E w \in wproc :
        /\ w.pc = "fetch"
        /\ \E fetched \in BOOLEAN, canView \in CanViewOutcomes(w.guild, w.user, w.ts) :
              wproc' = IF fetched /\ canView
                       THEN (wproc \ {w}) \cup {[w EXCEPT !.pc = "send"]}
                       ELSE wproc \ {w}
        /\ UNCHANGED <<storeVars, envVars, member, clock, welcomedJoinKey, timers,
                       nvAdds, wlog, posts, msgVars, clickVars, ev, pureVars>>

MarkAfterSend_always(map, w, ok) == MapSet(map, <<w.guild, w.user>>, w.ts)

\* await channel.send(...); welcomedJoinKey.set(mapKey, joinKey): the set is
\* reached only when the send did not throw
MarkAfterSend(map, w, ok) == IF ok THEN MapSet(map, <<w.guild, w.user>>, w.ts) ELSE map

\* channel.send returns: the join is marked as welcomed; a failed send is
\* caught and logged
WelcomeSent ==
    \E w \in wproc :
        /\ w.pc = "send"
        /\ wproc' = wproc \ {w}
        /\ \E ok \in BOOLEAN :
              LET k == <<w.guild, w.user, w.ts>> IN
              /\ posts' = IF ok
                           THEN MapSet(posts, k, IF k \in DOMAIN posts THEN posts[k] + 1 ELSE 1)
                           ELSE posts
              /\ welcomedJoinKey' = MarkAfterSend(welcomedJoinKey, w, ok)
        /\ UNCHANGED <<storeVars, envVars, member, clock, timers, nvAdds, wlog,
                       msgVars, clickVars, ev, pureVars>>

\* the configurations the welcome flow starts from: g1 has a verification
\* channel; g2 has one, has a configuration without one, or has none
WelcomeStores ==
    {[g \in {"g1"} |-> [verificationChannelId |-> "C1"]],
     [g \in Guilds |-> IF g = "g1"
                       THEN [verificationChannelId |-> "C1"]
                       ELSE [verificationChannelId |-> "C2", welcomeMode |-> "text"]],
     [g \in Guilds |-> IF g = "g1"
                       THEN [verificationChannelId |-> "C1"]
                       ELSE [notVerifiedRoleId |-> NVRole]]}

WelcomeInit ==
    /\ guildSettings \in WelcomeStores
    /\ disk = Stringify(guildSettings)
    /\ cmdReply = NoReply
    /\ ncmds = 0
    /\ EnvFixed
    /\ HandlersIdle
    /\ PureIdle

WelcomeNext ==
    \/ \E g \in Guilds, u \in WelcomeUsers : JoinEvent(g, u)
    \/ \E g \in Guilds, u \in WelcomeUsers : MemberUpdate(g, u)
    \/ \E g \in Guilds, u \in WelcomeUsers : MemberRemove(g, u)
    \/ NvAddResolve
    \/ TimerFire
    \/ WelcomeFetched
    \/ WelcomeSent

SpecWelcome == WelcomeInit /\ [][WelcomeNext]_vars

\* C4: a member who joined and has not left since got at most one welcome
\* post for that join.
C4_OneWelcomePerJoin ==
    \A k \in DOMAIN posts :
        (member[<<k[1], k[2]>>].inGuild /\ member[<<k[1], k[2]>>].ts = k[3]) => posts[k] <= 1

\* C5: when the dedup map holds timestamp t for (guild, user), an invocation
\* of maybePostWelcome for that key is stopped by the dedup test if and only if
\* its member's join timestamp is t.
C5_DedupByTimestamp ==
    [][(wlog' # wlog /\ <<wlog'.guild, wlog'.user>> \in DOMAIN welcomedJoinKey)
          => ((wlog'.gate = "dedup") <=>
                 (welcomedJoinKey[<<wlog'.guild, wlog'.user>>] = wlog'.ts))]_vars

\* a second trigger of a welcomed join was stopped by the dedup test
C5_Witness ==
    /\ wlog.gate = "dedup"
    /\ <<wlog.guild, wlog.user, wlog.ts>> \in DOMAIN posts

-----------------------------------------------------------------------------
(* Verification submissions: getVerifyRoles and the MessageCreate handler *)

\* one entry of config.verifyRoles as getVerifyRoles hands it out
ResolveEntry(vr) ==
    IF "roleIds" \in DOMAIN vr /\ Len(vr.roleIds) > 0
    THEN [roleIds |-> vr.roleIds, label |-> vr.label]
    ELSE IF "roleId" \in DOMAIN vr
    THEN [roleIds |-> <<vr.roleId>>, label |-> vr.label]
    ELSE vr

\* the legacy Role A / Role B entry of a configuration, if the field is set
LegacyEntry(config, f, fallback) ==
    LET id == Get(config, f) IN
    IF ~Truthy(id) THEN <<>>
    ELSE <<[roleIds |-> <<id>>,
            label |-> IF roleMeta[id].exists THEN DefaultLabel(id) ELSE fallback]>>

getVerifyRoles_BA(config) ==
    LET verifyRoles == VerifyRolesOf(config) IN
    IF Len(verifyRoles) > 0
    THEN [i \in 1..Len(verifyRoles) |-> ResolveEntry(verifyRoles[i])]
    ELSE LegacyEntry(config, "roleBId", "Verify: Role B")
            \o LegacyEntry(config, "roleAId", "Verify: Role A")

getVerifyRoles(config) ==
    LET verifyRoles == VerifyRolesOf(config) IN
    IF Len(verifyRoles) > 0
    THEN [i \in 1..Len(verifyRoles) |-> ResolveEntry(verifyRoles[i])]
    ELSE LegacyEntry(config, "roleAId", "Verify: Role A")
            \o LegacyEntry(config, "roleBId", "Verify: Role B")

ButtonsOf_oneBased(config, messageId, authorId) ==
    LET verifyRoles == getVerifyRoles(config) IN
    [i \in 1..(Len(verifyRoles) + 1) |->
        IF i <= Len(verifyRoles) THEN EncodeAssignSet(i, messageId, authorId)
        ELSE EncodeDeny(messageId, authorId)]

\* the customIds of the buttons of a staff prompt: one per role set, then deny
ButtonsOf(config, messageId, authorId) ==
    LET verifyRoles == getVerifyRoles(config) IN
    [i \in 1..(Len(verifyRoles) + 1) |->
        IF i <= Len(verifyRoles) THEN EncodeAssignSet(i - 1, messageId, authorId)
        ELSE EncodeDeny(messageId, authorId)]

NoResult == [kind |-> "none", roles |-> <<>>, target |-> <<>>, by |-> <<>>]

\* a staff prompt as it is sent: its buttons, no result line yet
NewPrompt(g, authorId, buttons) ==
    [guild |-> g, author |-> authorId, buttons |-> buttons, result |-> NoResult]

\* ids of the successive messages
MsgSeq == <<M1, M2, M3>>

\* MessageCreate: a message arrives in channel ch of guild g; the handler
\* returns at once or suspends on the fetch of the staff channel
MessageCreate(g, ch, author, isBot, hasImage) ==
    /\ nmsgs < MaxMsgs
    /\ nmsgs' = nmsgs + 1
    /\ ev' = ev \cup {Event("message", g)}
    /\ LET id     == MsgSeq[nmsgs + 1]
           config == getGuildConfig(guildSettings, g)
       IN  /\ submissions' = submissions \cup {<<ch, id>>}
           /\ mproc' = IF /\ ~isBot
                          /\ Truthy(Get(config, "verificationChannelId"))
                          /\ Truthy(Get(config, "staffChannelId"))
                          /\ ch = Get(config, "verificationChannelId")
                          /\ hasImage
                       THEN mproc \cup {[pc |-> "fetch", guild |-> g, id |-> id,
                                         author |-> author, cfg |-> config,
                                         buttons |-> <<>>]}
                       ELSE mproc
    /\ UNCHANGED <<storeVars, envVars, member, welcomeVars, mlog, prompts, click,
                   nclicks, pureVars>>

\* the fetch of the staff channel returns; the buttons are built
MsgStaffFetched ==
    \E m \in mproc :
        /\ m.pc = "fetch"
        /\ \E ok \in BOOLEAN :
              /\ mproc' = IF ok
                          THEN (mproc \ {m}) \cup
                               {[m EXCEPT !.pc = "send",
                                          !.buttons = ButtonsOf(m.cfg, m.id, m.author)]}
                          ELSE mproc \ {m}
              /\ mlog' = MapSet(mlog, m.id,
                                [fetched |-> ok,
                                 sends   |-> IF ok THEN <<ButtonsOf(m.cfg, m.id, m.author)>>
                                             ELSE <<>>])
        /\ UNCHANGED <<storeVars, envVars, member, welcomeVars, nmsgs, clickVars, ev,
                       pureVars>>

\* staffChannel.send returns: the prompt is posted, or the send failed and
\* the error is logged
MsgPromptSent ==
    \E m \in mproc :
        /\ m.pc = "send"
        /\ mproc' = mproc \ {m}
        /\ \E ok \in BOOLEAN :
              prompts' = IF ok THEN MapSet(prompts, m.id, NewPrompt(m.guild, m.author, m.buttons))
                         ELSE prompts
        /\ UNCHANGED <<storeVars, envVars, member, welcomeVars, nmsgs, mlog,
                       submissions, click, nclicks, ev, pureVars>>

-----------------------------------------------------------------------------
(* Button clicks: the InteractionCreate handler, one action per await *)

Finish_noReply(r, reply) == [r EXCEPT !.pc = "done"]

\* the handler replies and returns
Finish(r, reply) == [r EXCEPT !.pc = "done", !.reply = reply]

\* a platform call of the handler failed, or an exception was thrown
Failed(r) == [r EXCEPT !.failed = TRUE]

Allowed_anyone(perm) == TRUE

\* member.roles.cache.has(config.modRoleId) || member.permissions.has(ManageRoles)
Allowed(perm) == perm \in {"mod", "manage"}

\* vr && Array.isArray(vr.roleIds) && vr.roleIds.length > 0, for vr = verifyRoles[setIndex]
EntryAt_first(verifyRoles, setIndex) == verifyRoles[1]

\* const vr = verifyRoles[setIndex], for an index that has an entry
EntryAt(verifyRoles, setIndex) == verifyRoles[setIndex + 1]

HasEntry(verifyRoles, setIndex) ==
    /\ setIndex # NaN
    /\ setIndex + 1 <= Len(verifyRoles)
    /\ "roleIds" \in DOMAIN verifyRoles[setIndex + 1]
    /\ Len(verifyRoles[setIndex + 1].roleIds) > 0

RolesToAdd_first(roleIds) ==
    SelectSeq(roleIds, LAMBDA id : roleMeta[id].exists /\ id = roleIds[1])

\* roleIdsToAssign.map(id => guild.roles.cache.get(id)).filter(Boolean)
RolesToAdd(roleIds) == SelectSeq(roleIds, LAMBDA id : roleMeta[id].exists)

\* the customId is split and the role set looked up; the handler replies,
\* returns, or suspends on the fetch of the target member
Dispatch(r) ==
    LET d           == Decode(r.customId)
        verifyRoles == getVerifyRoles(r.cfg)
    IN  IF d.action = TagAssignSet
        THEN IF HasEntry(verifyRoles, d.setIndex)
             THEN [r EXCEPT !.pc = "targetFetch", !.fetched = TRUE]
             ELSE Finish(r, "not-configured")
        ELSE IF d.action = TagDeny
        THEN [r EXCEPT !.pc = "targetFetch", !.fetched = TRUE]
        ELSE [r EXCEPT !.pc = "done"]

Restricted_always(config) == TRUE

\* if (config.modRoleId): verification buttons are restricted to moderators
Restricted(config) == Truthy(Get(config, "modRoleId"))

\* a button is clicked: the handler runs up to its first await
ClickStart(c, g, p, customId, by, perm) ==
    /\ nclicks < MaxClicks
    /\ click[c].pc = "idle"
    /\ nclicks' = nclicks + 1
    /\ ev' = ev \cup {Event("click", g)}
    /\ LET config == getGuildConfig(guildSettings, g)
           r      == [IdleClick EXCEPT !.guild = g, !.prompt = p, !.customId = customId,
                                       !.by = by, !.perm = perm, !.cfg = config]
       IN  click' = [click EXCEPT ![c] =
                IF ~HasConfig(guildSettings, g) THEN [r EXCEPT !.pc = "done"]
                ELSE IF IsHelp(customId)
                THEN IF Truthy(Get(config, "staffChannelId"))
                     THEN [r EXCEPT !.pc = "helpFetch"]
                     ELSE Finish(r, "help-ack")
                ELSE IF Restricted(config)
                THEN [r EXCEPT !.pc = "authFetch"]
                ELSE Dispatch(r)]
    /\ UNCHANGED <<storeVars, envVars, member, welcomeVars, msgVars, prompts,
                   submissions, pureVars>>

\* help: the fetch of the staff channel returns
HelpFetched(c) ==
    /\ click[c].pc = "helpFetch"
    /\ \E ok \in BOOLEAN :
          click' = [click EXCEPT ![c] =
                        IF ok THEN [@ EXCEPT !.pc = "helpSend"]
                        ELSE Finish(Failed(@), "help-ack")]
    /\ UNCHANGED <<storeVars, envVars, member, welcomeVars, msgVars, prompts,
                   submissions, nclicks, ev, pureVars>>

\* help: staffChannel.send returns; a failed send throws into the catch block
HelpSent(c) ==
    /\ click[c].pc = "helpSend"
    /\ \E ok \in BOOLEAN :
          click' = [click EXCEPT ![c] =
                        IF ok THEN Finish([@ EXCEPT !.helpSent = TRUE], "help-ack")
                        ELSE Finish(Failed(@), "error")]
    /\ UNCHANGED <<storeVars, envVars, member, welcomeVars, msgVars, prompts,
                   submissions, nclicks, ev, pureVars>>

\* the fetch of the clicking member returns or throws; the moderator
\* restriction is applied
AuthFetched(c) ==
    /\ click[c].pc = "authFetch"
    /\ \E ok \in BOOLEAN :
          click' = [click EXCEPT ![c] =
                        IF ~ok THEN Finish(Failed(@), "error")
                        ELSE IF ~Allowed(@.perm) THEN Finish(@, "not-allowed")
                        ELSE Dispatch(@)]
    /\ UNCHANGED <<storeVars, envVars, member, welcomeVars, msgVars, prompts,
                   submissions, nclicks, ev, pureVars>>

\* what guild.members.fetch(targetUserId).catch(() => null) can return:
\* fetch(undefined) fetches the whole member list
TargetOutcomes(g, targetUserId) ==
    IF targetUserId = UndefinedS THEN {"collection", "null"}
    ELSE IF <<g, targetUserId>> \in JoinKeys /\ member[<<g, targetUserId>>].inGuild
    THEN {"member", "null"}
    ELSE {"null"}

AfterTarget_goesOn(r) ==
    IF r.target = "null" THEN [r EXCEPT !.pc = "update"] ELSE Finish(r, "none-exist")

\* from the return of the target fetch to the next await
AfterTarget(r) ==
    LET d == Decode(r.customId) IN
    IF r.target = "null" THEN Finish(r, "no-longer")
    ELSE IF d.action = TagAssignSet
    THEN LET rolesToAdd == RolesToAdd(EntryAt(getVerifyRoles(r.cfg), d.setIndex).roleIds) IN
         IF Len(rolesToAdd) = 0 THEN Finish(r, "none-exist")
         ELSE IF HasIssues(rolesToAdd) THEN Finish(r, "preflight")
         ELSE IF r.target = "collection" THEN Finish(Failed(r), "error")
         ELSE [r EXCEPT !.pc = "add", !.rolesToAdd = rolesToAdd]
    ELSE IF Truthy(Get(r.cfg, "verificationChannelId"))
         THEN [r EXCEPT !.pc = "denyChan"]
         ELSE [r EXCEPT !.pc = "update"]

TargetFetched(c) ==
    /\ click[c].pc = "targetFetch"
    /\ LET r == click[c]
           d == Decode(r.customId)
       IN  \E t \in TargetOutcomes(r.guild, d.targetUserId) :
              click' = [click EXCEPT ![c] =
                  AfterTarget([r EXCEPT !.target = t,
                                        !.failed = t = "null" /\ "member" \in
                                            TargetOutcomes(r.guild, d.targetUserId)])]
    /\ UNCHANGED <<storeVars, envVars, member, welcomeVars, msgVars, prompts,
                   submissions, nclicks, ev, pureVars>>

\* config.notVerifiedRoleId ? guild.roles.cache.get(config.notVerifiedRoleId) : null
NotVerifiedRole(config) ==
    LET nv == Get(config, "notVerifiedRoleId") IN
    IF Truthy(nv) /\ roleMeta[nv].exists THEN nv ELSE Null

AfterAdd_noRemoval(r, held) == [r EXCEPT !.pc = "update"]

\* await removeNotVerifiedIfAny(): the removal is called if the role is
\* configured, exists and is held; finishAndAck comes after it
AfterAdd(r, held) == [r EXCEPT !.pc = IF held THEN "remove" ELSE "update"]

AddThrown_swallowed(r) == [Failed(r) EXCEPT !.pc = "update"]

\* await targetMember.roles.add(...) throws: the catch block replies
AddThrown(r) == Finish(Failed(r), "error")

\* targetMember.roles.add(rolesToAdd) returns or throws; on success
\* removeNotVerifiedIfAny reads the target's roles
AddResolved(c) ==
    /\ click[c].pc = "add"
    /\ LET r  == click[c]
           k  == <<r.guild, Decode(r.customId).targetUserId>>
           nv == NotVerifiedRole(r.cfg)
       IN  \E ok \in {member[k].inGuild, FALSE} :
              IF ok
              THEN /\ member' = [member EXCEPT ![k].roles = @ \cup SetOf(r.rolesToAdd)]
                   /\ click' = [click EXCEPT ![c] =
                         AfterAdd([r EXCEPT !.added = SetOf(r.rolesToAdd)],
                                  nv # Null /\ nv \in member'[k].roles)]
              ELSE /\ member' = member
                   /\ click' = [click EXCEPT ![c] = AddThrown(r)]
    /\ UNCHANGED <<storeVars, envVars, welcomeVars, msgVars, prompts, submissions,
                   nclicks, ev, pureVars>>

RemoveCaught_raises(r) == Finish(Failed(r), "error")

\* .catch(() => {}) on the removal: the handler goes on to finishAndAck
RemoveCaught(r) == [Failed(r) EXCEPT !.pc = "update"]

\* targetMember.roles.remove(notVerifiedRole) returns; a failure is swallowed
RemoveResolved(c) ==
    /\ click[c].pc = "remove"
    /\ LET r == click[c]
           k == <<r.guild, Decode(r.customId).targetUserId>>
       IN  \E ok \in {member[k].inGuild, FALSE} :
              IF ok
              THEN /\ member' = [member EXCEPT ![k].roles = @ \ {NotVerifiedRole(r.cfg)}]
                   /\ click' = [click EXCEPT ![c] =
                                    [r EXCEPT !.pc = "update", !.removedNV = TRUE]]
              ELSE /\ member' = member
                   /\ click' = [click EXCEPT ![c] = RemoveCaught(r)]
    /\ UNCHANGED <<storeVars, envVars, welcomeVars, msgVars, prompts, submissions,
                   nclicks, ev, pureVars>>

\* deny: the fetch of the verification channel returns
DenyChanFetched(c) ==
    /\ click[c].pc = "denyChan"
    /\ \E ok \in BOOLEAN :
          click' = [click EXCEPT ![c] =
                        IF ok THEN [@ EXCEPT !.pc = "denyMsg"]
                        ELSE [Failed(@) EXCEPT !.pc = "update"]]
    /\ UNCHANGED <<storeVars, envVars, member, welcomeVars, msgVars, prompts,
                   submissions, nclicks, ev, pureVars>>

\* deny: the fetch of the submission message returns
DenyMsgFetched(c) ==
    /\ click[c].pc = "denyMsg"
    /\ LET r       == click[c]
           present == <<Get(r.cfg, "verificationChannelId"),
                        Decode(r.customId).messageId>> \in submissions
       IN  \E ok \in {present, FALSE} :
              click' = [click EXCEPT ![c] =
                            IF ok THEN [r EXCEPT !.pc = "denyDelete"]
                            ELSE IF present THEN [Failed(r) EXCEPT !.pc = "update"]
                            ELSE [r EXCEPT !.pc = "update"]]
    /\ UNCHANGED <<storeVars, envVars, member, welcomeVars, msgVars, prompts,
                   submissions, nclicks, ev, pureVars>>

\* deny: original.delete() returns; a failure is swallowed
DenyDeleted(c) ==
    /\ click[c].pc = "denyDelete"
    /\ LET r   == click[c]
           msg == <<Get(r.cfg, "verificationChannelId"), Decode(r.customId).messageId>>
       IN  \E ok \in {msg \in submissions, FALSE} :
              IF ok
              THEN /\ submissions' = submissions \ {msg}
                   /\ click' = [click EXCEPT ![c] =
                                    [r EXCEPT !.pc = "update", !.deleted = TRUE]]
              ELSE /\ submissions' = submissions
                   /\ click' = [click EXCEPT ![c] = [Failed(r) EXCEPT !.pc = "update"]]
    /\ UNCHANGED <<storeVars, envVars, member, welcomeVars, msgVars, prompts,
                   nclicks, ev, pureVars>>

ResultLine_byTarget(r) ==
    LET d == Decode(r.customId) IN
    [kind   |-> IF d.action = TagAssignSet THEN "assigned" ELSE "denied",
     roles  |-> r.rolesToAdd,
     target |-> d.targetUserId,
     by     |-> d.targetUserId]

\* the result line finishAndAck is called with
ResultLine(r) ==
    LET d == Decode(r.customId) IN
    [kind   |-> IF d.action = TagAssignSet THEN "assigned" ELSE "denied",
     roles  |-> r.rolesToAdd,
     target |-> d.targetUserId,
     by     |-> r.by]

\* interaction.update({ components: [], embeds, content })
EditedPrompt(prompt, content) == [prompt EXCEPT !.buttons = <<>>, !.result = content]

\* finishAndAck returns or throws; after it the DM to the target is sent
\* without being awaited
UpdateResolved(c) ==
    /\ click[c].pc = "update"
    /\ LET r == click[c] IN
       \E ok \in BOOLEAN, dm \in {"sent", "failed"} :
          IF ok
          THEN /\ prompts' = [prompts EXCEPT ![r.prompt] = EditedPrompt(@, ResultLine(r))]
               /\ click' = [click EXCEPT ![c] =
                     [r EXCEPT !.pc = "done", !.edited = TRUE,
                               !.dm = IF r.target = "member" THEN dm ELSE "none",
                               !.failed = @ \/ r.target # "member" \/ dm = "failed"]]
          ELSE /\ prompts' = prompts
               /\ click' = [click EXCEPT ![c] = Finish(Failed(r), "error")]
    /\ UNCHANGED <<storeVars, envVars, member, welcomeVars, msgVars, submissions,
                   nclicks, ev, pureVars>>

\* `return interaction.reply(...)`: the promise of the reply is returned from
\* inside the try block without await, so its rejection is not caught there;
\* the reply of the catch block carries .catch(() => {})
ReplySettles(r) == IF r.reply \in {"none", "error"} THEN {TRUE} ELSE BOOLEAN

\* the handler has returned and its promise settles: its local variables are
\* gone; when the returned reply is rejected so is the handler's promise, and
\* the process gets an unhandled rejection
ClickReturn(c) ==
    /\ click[c].pc = "done"
    /\ click' = [click EXCEPT ![c] = IdleClick]
    /\ \E ok \in ReplySettles(click[c]) :
          ev' = IF ok THEN ev ELSE ev \cup {Event("unhandledRejection", click[c].guild)}
    /\ UNCHANGED <<storeVars, envVars, member, welcomeVars, msgVars, prompts,
                   submissions, nclicks, pureVars>>

\* the steps a running click handler can take
ClickStep(c) ==
    \/ HelpFetched(c)
    \/ HelpSent(c)
    \/ AuthFetched(c)
    \/ TargetFetched(c)
    \/ AddResolved(c)
    \/ RemoveResolved(c)
    \/ DenyChanFetched(c)
    \/ DenyMsgFetched(c)
    \/ DenyDeleted(c)
    \/ UpdateResolved(c)
    \/ ClickReturn(c)

-----------------------------------------------------------------------------
(* Clicks on the buttons of one staff prompt *)

VetSets == <<[roleIds |-> <<"R1">>, label |-> "Vet"],
             [roleIds |-> <<"R1", "R2">>, label |-> "Verify: R1"]>>

\* the configurations of g1 the clicks are checked under: with and without
\* moderator role, flexible role sets or the legacy Role A / Role B
ClickConfigs ==
    {[verificationChannelId |-> "C1", staffChannelId |-> "C2", modRoleId |-> ModRole,
      notVerifiedRoleId |-> NVRole, verifyRoles |-> VetSets],
     [verificationChannelId |-> "C1", staffChannelId |-> "C2",
      notVerifiedRoleId |-> NVRole, verifyRoles |-> VetSets],
     [verificationChannelId |-> "C1", staffChannelId |-> "C2", modRoleId |-> ModRole,
      roleAId |-> "R1", roleBId |-> "R2"]}

TagLegacy == <<"a", "s", "s", "i", "g", "n", "A">>

\* customIds the encoder of this revision does not produce: a deny token
\* without user id, an assign token without user id, an assign token with an
\* extra field, a token of an earlier revision
ForeignTokens(messageId, authorId) ==
    {Join(<<TagDeny, messageId>>),
     Join(<<TagAssignSet, <<"0">>, messageId>>),
     Join(<<TagAssignSet, <<"0">>, messageId, authorId, <<"x">>>>),
     Join(<<TagLegacy, messageId, authorId>>)}

\* the customId of a button whose index is past the end of the role sets
\* resolved now: the prompt was posted when the guild had three role sets
StaleTokens(messageId, authorId) == {EncodeAssignSet(2, messageId, authorId)}

\* the customIds a click on prompt p can carry; an edited prompt has no buttons
TokensOn(p) ==
    IF prompts[p].buttons = <<>> THEN {}
    ELSE SetOf(prompts[p].buttons) \cup ForeignTokens(p, prompts[p].author)
            \cup StaleTokens(p, prompts[p].author)

Perms == {"none", "mod", "manage"}

\* the member the submissions are about, in the states a click can find them
TargetWorlds ==
    {[k \in JoinKeys |-> IF k = <<"g1", U1>> THEN m ELSE NotMember] :
        m \in {[inGuild |-> TRUE, ts |-> 1, pending |-> FALSE, roles |-> {}],
               [inGuild |-> TRUE, ts |-> 1, pending |-> FALSE, roles |-> {NVRole}],
               NotMember}}

ClickInit ==
    /\ guildSettings \in {[g \in {"g1"} |-> cfg] : cfg \in ClickConfigs}
    /\ disk = Stringify(guildSettings)
    /\ cmdReply = NoReply
    /\ ncmds = 0
    /\ EnvInit
    /\ member \in TargetWorlds
    /\ \A k \in JoinKeys : \A role \in member[k].roles : roleMeta[role].exists
    /\ WelcomeIdle
    /\ MsgIdle
    /\ prompts = [m \in {M1} |-> NewPrompt("g1", U1, ButtonsOf(guildSettings["g1"], M1, U1))]
    /\ submissions = {<<"C1", M1>>}
    /\ click = [c \in Clicks |-> IdleClick]
    /\ nclicks = 0
    /\ ev = NoEvent
    /\ PureIdle

\* no click handler is running
NoneRunning == \A c \in Clicks : click[c].pc = "idle"

\* a verification button of a prompt is clicked by U3, who may or may not be
\* a moderator; one click is handled at a time
PromptClick ==
    \E p \in DOMAIN prompts, perm \in Perms :
        \E customId \in TokensOn(p) :
            /\ NoneRunning
            /\ ClickStart("c1", prompts[p].guild, p, customId, U3, perm)

\* the help button of a welcome message is clicked by the welcomed member
HelpClick ==
    \E g \in Guilds, u \in WelcomeUsers :
        /\ NoneRunning
        /\ ClickStart("c1", g, <<>>, EncodeHelp(u), u, "none")

ClickNext ==
    \/ PromptClick
    \/ HelpClick
    \/ \E c \in Clicks : ClickStep(c)

SpecClick == ClickInit /\ [][ClickNext]_vars

\* a click handler has reached a return statement
Done(c) == click[c].pc = "done"

\* the click added no role, removed no role, deleted no submission and
\* edited no prompt
NoMutation(r) == r.added = {} /\ ~r.removedNV /\ ~r.deleted /\ ~r.edited

\* the click carries a token with the tag of a verification button
VerificationClick(r) == Part(Split(r.customId), 0) \in {TagAssignSet, TagDeny}

\* the clicker holds neither the moderator role nor Manage Roles, in a guild
\* with a moderator role
Unauthorised(r) == Truthy(Get(r.cfg, "modRoleId")) /\ r.perm = "none"

\* C1 as stated: a verification click by an unauthorised member is answered
\* with 'not allowed' and mutates nothing.
C1_NotAllowedAlways ==
    \A c \in Clicks :
        (Done(c) /\ VerificationClick(click[c]) /\ Unauthorised(click[c]))
            => (click[c].reply = "not-allowed" /\ NoMutation(click[c]))

\* C1: a verification click by an unauthorised member mutates nothing; it is
\* answered with 'not allowed' when the fetch of the clicking member succeeds
\* and with the generic failure reply when that fetch throws.
C1_UnauthorisedNoMutation ==
    \A c \in Clicks :
        (Done(c) /\ VerificationClick(click[c]) /\ Unauthorised(click[c]))
            => /\ NoMutation(click[c])
               /\ ~click[c].fetched
               /\ click[c].reply = IF click[c].failed THEN "error" ELSE "not-allowed"

\* an unauthorised member clicked an assign button and was turned away
C1_Witness ==
    \E c \in Clicks :
        /\ Done(c)
        /\ Unauthorised(click[c])
        /\ Part(Split(click[c].customId), 0) = TagAssignSet
        /\ click[c].reply = "not-allowed"

\* the role ids of the role set a click's token points at, <<>> if none
ClickedSet(r) ==
    LET parts       == Split(r.customId)
        verifyRoles == getVerifyRoles(r.cfg)
        index       == NumberOf(Part(parts, 1))
    IN  IF Part(parts, 0) = TagAssignSet /\ index # NaN /\ index < Len(verifyRoles)
        THEN verifyRoles[index + 1].roleIds
        ELSE <<>>

\* the roles of a list that exist in the guild
ExistingOf(roleIds) == {roleIds[i] : i \in {j \in 1..Len(roleIds) : roleMeta[roleIds[j]].exists}}

\* a role the bot can grant: not managed, strictly below the bot's highest role
Grantable(role) == ~roleMeta[role].managed /\ roleMeta[role].position < bot.highest

\* the pre-flight check fails for a set of existing roles
PreflightFails(roles) == ~bot.manageRoles \/ \E role \in roles : ~Grantable(role)

\* C2: a click on a role set with an existing role, whose pre-flight check
\* fails, adds no role, does not remove the not-verified role and does not
\* edit the prompt; once the target member is fetched the reply is the
\* pre-flight diagnostic.
C2_PreflightAllOrNothing ==
    \A c \in Clicks :
        LET r == click[c] IN
        (Done(c) /\ ExistingOf(ClickedSet(r)) # {} /\ PreflightFails(ExistingOf(ClickedSet(r))))
            => /\ NoMutation(r)
               /\ r.target \in {"member", "collection"} => r.reply = "preflight"

\* a set with a grantable role and a role the bot cannot grant was refused
C2_Witness ==
    \E c \in Clicks :
        /\ Done(c)
        /\ click[c].reply = "preflight"
        /\ bot.manageRoles
        /\ \E role \in ExistingOf(ClickedSet(click[c])) : Grantable(role)

\* the clicker may use the verification buttons
Authorised(r) == ~Truthy(Get(r.cfg, "modRoleId")) \/ r.perm \in {"mod", "manage"}

\* the member a click's token names as target
TargetOf(r) == <<r.guild, Decode(r.customId).targetUserId>>

\* C3: after an authorised click on a role set whose existing roles all pass
\* the pre-flight check, with the target in the guild and no platform call
\* failing, the target holds every existing role of the set and not the
\* configured not-verified role, and the prompt has no buttons and a result
\* line with the assigned roles, the target and the acting moderator.
C3_AssignSuccess ==
    \A c \in Clicks :
        LET r   == click[c]
            set == ExistingOf(ClickedSet(r))
        IN  (/\ Done(c)
             /\ Authorised(r)
             /\ set # {}
             /\ ~PreflightFails(set)
             /\ r.target = "member"
             /\ ~r.failed)
            => /\ set \subseteq member[TargetOf(r)].roles
               /\ Get(r.cfg, "notVerifiedRoleId") \notin member[TargetOf(r)].roles
               /\ prompts[r.prompt].buttons = <<>>
               /\ prompts[r.prompt].result.kind = "assigned"
               /\ SetOf(prompts[r.prompt].result.roles) = set
               /\ prompts[r.prompt].result.target = Decode(r.customId).targetUserId
               /\ prompts[r.prompt].result.by = r.by

\* a moderator assigned a set of two roles to a member who held the
\* not-verified role
C3_Witness ==
    \E c \in Clicks :
        /\ Done(c)
        /\ click[c].perm = "mod"
        /\ click[c].added = {"R1", "R2"}
        /\ click[c].removedNV
        /\ click[c].edited
        /\ ~click[c].failed

\* the number of fields of a token is wrong for its tag
WrongArity(customId) ==
    LET parts == Split(customId) IN
    \/ parts[1] = TagAssignSet /\ Len(parts) # 4
    \/ parts[1] = TagDeny /\ Len(parts) # 3
    \/ parts[1] = TagHelp /\ Len(parts) # 2

\* C10: a click with a token of the wrong arity is rejected when the token is
\* decoded: the target member is not fetched, no role is added or removed, no
\* submission is deleted and no prompt is edited.
C10_WrongArityRejected ==
    \A c \in Clicks :
        (Done(c) /\ WrongArity(click[c].customId))
            => (~click[c].fetched /\ NoMutation(click[c]))

-----------------------------------------------------------------------------
(* All handlers, with a guild that has no stored configuration *)

\* g1 is configured or not; g2 is not. Both guilds have a staff prompt from
\* an earlier run (the settings file was lost since) and U2 is a member of
\* both, with the not-verified role where the guild is configured
QuietInit ==
    /\ guildSettings \in {<<>>,
                          [g \in {"g1"} |->
                              [verificationChannelId |-> "C1", staffChannelId |-> "C2",
                               modRoleId |-> ModRole, notVerifiedRoleId |-> NVRole,
                               verifyRoles |-> VetSets]]}
    /\ disk = Stringify(guildSettings)
    /\ cmdReply = NoReply
    /\ ncmds = 0
    /\ EnvFixed
    /\ member = [k \in JoinKeys |->
                    IF k[2] = U2
                    THEN [inGuild |-> TRUE, ts |-> 1, pending |-> FALSE,
                          roles |-> IF k[1] \in DOMAIN guildSettings THEN {NVRole} ELSE {}]
                    ELSE NotMember]
    /\ WelcomeIdle
    /\ MsgIdle
    /\ prompts = [m \in {P1, P2} |->
                    NewPrompt(IF m = P1 THEN "g1" ELSE "g2", U2,
                              <<EncodeAssignSet(0, m, U2), EncodeDeny(m, U2)>>)]
    /\ submissions = {<<"C1", P1>>, <<"C1", P2>>}
    /\ click = [c \in Clicks |-> IdleClick]
    /\ nclicks = 0
    /\ ev = NoEvent
    /\ PureIdle

\* joins, messages and clicks handled so far
Handled == clock + nmsgs + nclicks

\* no handler is suspended and no request of a handler is in flight
Alone == wproc = {} /\ mproc = {} /\ nvAdds = {} /\ NoneRunning

\* the next join, message or click arrives when the handlers of the earlier
\* events have returned
Arrival == Handled < MaxEvents /\ Alone

QuietNext ==
    \/ \E g \in Guilds, u \in WelcomeUsers : Arrival /\ JoinEvent(g, u)
    \/ \E g \in Guilds, u \in WelcomeUsers : Alone /\ MemberUpdate(g, u)
    \/ \E g \in Guilds, u \in WelcomeUsers : Alone /\ MemberRemove(g, u)
    \/ NvAddResolve
    \/ (Alone /\ TimerFire)
    \/ WelcomeFetched
    \/ WelcomeSent
    \/ \E g \in Guilds, ch \in Channels, isBot \in BOOLEAN, hasImage \in BOOLEAN :
          Arrival /\ MessageCreate(g, ch, U2, isBot, hasImage)
    \/ MsgStaffFetched
    \/ MsgPromptSent
    \/ (Arrival /\ PromptClick)
    \/ (Arrival /\ HelpClick)
    \/ \E c \in Clicks : ClickStep(c)

SpecQuiet == QuietInit /\ [][QuietNext]_vars

\* the settings store has no record for guild g
Unconfigured(g) == g \notin DOMAIN guildSettings

\* C6: for a guild without stored configuration no welcome check is
\* scheduled, no role add is in flight, no handler is suspended at a fetch or
\* a send, nothing was posted, no member's roles changed, the guild's prompts
\* are untouched, and every click was dropped without reply or effect.
C6_UnconfiguredNoEffect ==
    \A g \in Guilds :
        Unconfigured(g) =>
            /\ \A t \in timers \cup nvAdds \cup wproc \cup mproc : t.guild # g
            /\ \A k \in DOMAIN posts : k[1] # g
            /\ \A u \in MemberIds : member[<<g, u>>].roles = {}
            /\ \A p \in DOMAIN prompts :
                  prompts[p].guild = g =>
                      /\ p \in {P1, P2}
                      /\ prompts[p].result = NoResult
                      /\ prompts[p].buttons # <<>>
            /\ \A c \in Clicks :
                  click[c].guild = g =>
                      /\ Done(c)
                      /\ click[c].reply = "none"
                      /\ ~click[c].fetched
                      /\ ~click[c].helpSent
                      /\ NoMutation(click[c])

\* the join, member-update, message and click handlers have all run for a
\* guild without stored configuration, the click being the last
C6_Witness ==
    \E g \in Guilds :
        /\ Unconfigured(g)
        /\ {Event(kind, g) : kind \in {"join", "update", "message", "click"}} \subseteq ev
        /\ \E c \in Clicks : Done(c) /\ click[c].guild = g

-----------------------------------------------------------------------------
(* getVerifyRoles called twice on one configuration *)

\* entries as /setup verifyrole_add stores them, a single-role entry of an
\* earlier revision, and an entry without roles
ResolveEntries ==
    {[roleIds |-> <<"R1">>, label |-> "Vet"],
     [roleIds |-> <<"R1", "R2">>, label |-> "Both"],
     [roleIds |-> <<"R2", "R1">>, label |-> "Swapped"],
     [roleId |-> "R2", label |-> "Old"],
     [roleIds |-> <<>>, label |-> "Empty"]}

\* verifyRoles absent, empty or with up to MaxSets entries; roleAId and
\* roleBId each set or not
ResolveConfigs ==
    {Spread(Spread(vr, a), b) :
        vr \in {<<>>} \cup {[f \in {"verifyRoles"} |-> list] :
                               list \in UNION {[1..n -> ResolveEntries] : n \in 0..MaxSets}},
        a \in {<<>>, [roleAId |-> "R1"]},
        b \in {<<>>, [roleBId |-> "R2"]}}

ResolveInit ==
    /\ guildSettings \in {[g \in {"g1"} |-> cfg] : cfg \in ResolveConfigs}
    /\ disk = Stringify(guildSettings)
    /\ cmdReply = NoReply
    /\ ncmds = 0
    /\ roleMeta \in {AllRolesOK, [AllRolesOK EXCEPT !["R2"] = RoleDeleted],
                     [AllRolesOK EXCEPT !["R1"] = RoleDeleted, !["R2"] = RoleDeleted]}
    /\ bot = [manageRoles |-> TRUE, highest |-> 2]
    /\ HandlersIdle
    /\ pin = [kind |-> "resolve"]
    /\ pout = [kind |-> "resolve", calls |-> <<>>]
    /\ pphase = 0

\* getVerifyRoles(config, guild) is called; it changes neither the
\* configuration nor the role cache
ResolveCall ==
    /\ pphase < 2
    /\ pphase' = pphase + 1
    /\ pout' = [pout EXCEPT !.calls = Append(@, getVerifyRoles(getGuildConfig(guildSettings, "g1")))]
    /\ UNCHANGED <<storeVars, envVars, handlerVars, pin>>

ResolveNext == ResolveCall

SpecResolve == ResolveInit /\ [][ResolveNext]_vars

\* the stored verifyRoles list of g1, <<>> when the field is absent
StoredSets ==
    IF "verifyRoles" \in DOMAIN guildSettings["g1"] THEN guildSettings["g1"]["verifyRoles"]
    ELSE <<>>

\* the role ids a stored entry stands for
StoredRoleIds(vr) ==
    IF "roleIds" \in DOMAIN vr /\ vr.roleIds # <<>> THEN vr.roleIds
    ELSE IF "roleId" \in DOMAIN vr THEN <<vr.roleId>>
    ELSE <<>>

\* C11: two calls of getVerifyRoles on the same configuration and role cache
\* return equal sequences; with a non-empty verifyRoles the result has one
\* entry per stored entry, in the stored order; in the legacy fallback with
\* both roleAId and roleBId set the entry of roleAId comes first.
C11_ResolveDeterministic ==
    /\ \A i, j \in 1..Len(pout.calls) : pout.calls[i] = pout.calls[j]
    /\ \A i \in 1..Len(pout.calls) :
          LET res == pout.calls[i]
              cfg == guildSettings["g1"]
          IN  IF StoredSets # <<>>
              THEN /\ Len(res) = Len(StoredSets)
                   /\ \A n \in 1..Len(res) :
                         /\ res[n].label = StoredSets[n].label
                         /\ res[n].roleIds = StoredRoleIds(StoredSets[n])
              ELSE ("roleAId" \in DOMAIN cfg /\ "roleBId" \in DOMAIN cfg)
                      => /\ Len(res) = 2
                         /\ res[1].roleIds = <<cfg["roleAId"]>>
                         /\ res[2].roleIds = <<cfg["roleBId"]>>

\* getVerifyRoles was called twice and returned two different entries
C11_Witness ==
    /\ pphase = 2
    /\ Len(pout.calls[1]) = 2
    /\ pout.calls[1][1] # pout.calls[1][2]
    /\ pout.calls[2] = pout.calls[1]

\* the labels getVerifyRoles gives to the entries it derives from roleAId and
\* roleBId; no stored entry of ResolveEntries carries one of them
LegacyLabels == {"Verify: R1", "Verify: R2", "Verify: Role A", "Verify: Role B"}

\* C12: with a non-empty verifyRoles no returned entry is derived from
\* roleAId or roleBId; with verifyRoles absent or empty at most two entries
\* are returned, each derived from roleAId or roleBId.
C12_LegacyFallbackOnly ==
    \A i \in 1..Len(pout.calls) :
        LET res == pout.calls[i] IN
        IF StoredSets # <<>>
        THEN \A n \in 1..Len(res) : res[n].label \notin LegacyLabels
        ELSE /\ Len(res) <= 2
             /\ \A n \in 1..Len(res) :
                   /\ res[n].label \in LegacyLabels
                   /\ \E f \in {"roleAId", "roleBId"} :
                         f \in DOMAIN guildSettings["g1"]
                            /\ res[n].roleIds = <<guildSettings["g1"][f]>>

\* getVerifyRoles was called on a configuration with stored role sets and
\* both legacy roles, and returned the stored sets only
C12_Witness ==
    /\ pphase >= 1
    /\ StoredSets # <<>>
    /\ {"roleAId", "roleBId"} \subseteq DOMAIN guildSettings["g1"]
    /\ Len(pout.calls[1]) = Len(StoredSets)

-----------------------------------------------------------------------------
(* One kind of message, sent to a guild in one of several configurations *)

\* configurations of g1: the ones of ClickConfigs, one without role sets and
\* one without staff channel
SubmitConfigs ==
    ClickConfigs \cup {[verificationChannelId |-> "C1", staffChannelId |-> "C2"],
                       [verificationChannelId |-> "C1"]}

SubmitInit ==
    /\ guildSettings \in {<<>>} \cup {[g \in {"g1"} |-> cfg] : cfg \in SubmitConfigs}
    /\ disk = Stringify(guildSettings)
    /\ cmdReply = NoReply
    /\ ncmds = 0
    /\ EnvFixed
    /\ HandlersIdle
    /\ \E g \in Guilds, ch \in Channels, isBot \in BOOLEAN, hasImage \in BOOLEAN :
          pin = [kind |-> "message", guild |-> g, channel |-> ch, author |-> U1,
                 isBot |-> isBot, hasImage |-> hasImage]
    /\ pout = [kind |-> "none"]
    /\ pphase = 0

\* a message of the chosen kind arrives
SubmitMessage ==
    MessageCreate(pin.guild, pin.channel, pin.author, pin.isBot, pin.hasImage)

SubmitNext ==
    \/ SubmitMessage
    \/ MsgStaffFetched
    \/ MsgPromptSent

SpecSubmit == SubmitInit /\ [][SubmitNext]_vars

\* the message is a verification submission: non-bot author, image attached,
\* posted in the verification channel of a guild with both channels configured
IsSubmission ==
    LET cfg == getGuildConfig(guildSettings, pin.guild) IN
    /\ ~pin.isBot
    /\ pin.hasImage
    /\ {"verificationChannelId", "staffChannelId"} \subseteq DOMAIN cfg
    /\ pin.channel = cfg["verificationChannelId"]

\* one assign button per resolved role set, the i-th carrying index i - 1,
\* then one deny button, all naming the message and its author
ExpectedButtons(buttons, cfg, id, author) ==
    LET n == Len(getVerifyRoles(cfg)) IN
    /\ Len(buttons) = n + 1
    /\ \A i \in 1..n :
          buttons[i] = Join(<<TagAssignSet, ToStr(i - 1), id, author>>)
    /\ buttons[n + 1] = Join(<<TagDeny, id, author>>)

-----------------------------------------------------------------------------
(* Joins in a guild with a not-verified role and no verification channel *)

\* guild g has a configuration with an existing not-verified role and without
\* verification channel
RoleOnly(g) ==
    /\ g \in DOMAIN guildSettings
    /\ "notVerifiedRoleId" \in DOMAIN guildSettings[g]
    /\ roleMeta[guildSettings[g]["notVerifiedRoleId"]].exists
    /\ "verificationChannelId" \notin DOMAIN guildSettings[g]

\* no welcome was posted in g, no maybePostWelcome is suspended for g, and the
\* last invocation for g returned at the configuration test
NoWelcomeIn(g) ==
    /\ \A k \in DOMAIN posts : k[1] # g
    /\ \A w \in wproc : w.guild # g
    /\ wlog.guild = g => wlog.gate = "noChannel"

\* the step is a join of u in g
Joins(g, u) == ~member[<<g, u>>].inGuild /\ member'[<<g, u>>].inGuild

\* C14: in a guild with a not-verified role and no verification channel the
\* join handler issues the role add in the step of the join, and no welcome
\* is ever posted: the deferred check and the screening-completed trigger
\* return at the configuration test.
C14_RoleOnlyNoWelcome ==
    /\ [](\A g \in Guilds : RoleOnly(g) => NoWelcomeIn(g))
    /\ [][\A g \in Guilds, u \in MemberIds :
             (RoleOnly(g) /\ Joins(g, u))
                => MemberRef(g, u, member'[<<g, u>>].ts) \in nvAdds' \ nvAdds]_vars

\* a member of such a guild got the not-verified role, and the deferred check
\* of the join has run and returned
C14_Witness ==
    \E g \in Guilds, u \in MemberIds :
        /\ RoleOnly(g)
        /\ member[<<g, u>>].inGuild
        /\ NVRole \in member[<<g, u>>].roles
        /\ wlog.guild = g /\ wlog.user = u /\ wlog.ts = member[<<g, u>>].ts
        /\ \A t \in timers : t.guild # g

-----------------------------------------------------------------------------
(* Two moderators click buttons of the same prompt *)

\* the moderator behind each click handler
ModeratorOf(c) == IF c = "c1" THEN U2 ELSE U3

RaceInit ==
    /\ guildSettings = [g \in {"g1"} |->
                           [verificationChannelId |-> "C1", staffChannelId |-> "C2",
                            modRoleId |-> ModRole, notVerifiedRoleId |-> NVRole,
                            verifyRoles |-> VetSets]]
    /\ disk = Stringify(guildSettings)
    /\ cmdReply = NoReply
    /\ ncmds = 0
    /\ EnvFixed
    /\ member = [k \in JoinKeys |->
                    IF k = <<"g1", U1>>
                    THEN [inGuild |-> TRUE, ts |-> 1, pending |-> FALSE, roles |-> {NVRole}]
                    ELSE NotMember]
    /\ WelcomeIdle
    /\ MsgIdle
    /\ prompts = [m \in {M1} |-> NewPrompt("g1", U1, ButtonsOf(guildSettings["g1"], M1, U1))]
    /\ submissions = {<<"C1", M1>>}
    /\ click = [c \in Clicks |-> IdleClick]
    /\ nclicks = 0
    /\ ev = NoEvent
    /\ PureIdle

\* a moderator clicks a button the prompt still shows, while the handler of
\* the other moderator's click may be running
RaceClick(c) ==
    \E p \in DOMAIN prompts :
        \E customId \in SetOf(prompts[p].buttons) :
            ClickStart(c, prompts[p].guild, p, customId, ModeratorOf(c), "mod")

RaceNext ==
    \/ \E c \in Clicks : RaceClick(c)
    \/ HelpClick
    \/ \E c \in Clicks : ClickStep(c)

SpecRace == RaceInit /\ [][RaceNext]_vars

\* the click has granted roles or deleted the submission
Acted(c) == click[c].added # {} \/ click[c].deleted

\* C15: of the clicks on one prompt at most one grants roles or deletes the
\* submission, also when a second click was in flight before the buttons of
\* the prompt were cleared.
C15_ResolvedOnce ==
    \A c \in Clicks, d \in Clicks :
        (c # d /\ click[c].prompt = click[d].prompt /\ Acted(c)) => ~Acted(d)

-----------------------------------------------------------------------------
(* Stale assign buttons *)

\* the ephemeral error replies of the button handler
ErrorReplies == {"not-configured", "none-exist", "no-longer", "error"}

\* the click carries an assign token whose index has no role set in the list
\* resolved at click time, or whose role set has no role left in the guild
StaleAssign(r) ==
    /\ Part(Split(r.customId), 0) = TagAssignSet
    /\ ExistingOf(ClickedSet(r)) = {}

\* C16: an authorised assign click whose index is out of range or whose role
\* set has no existing role is answered with an ephemeral error, adds and
\* removes no role, and leaves the prompt with its buttons and without
\* result line.
C16_StaleAssignRefused ==
    \A c \in Clicks :
        LET r == click[c] IN
        (Done(c) /\ Authorised(r) /\ StaleAssign(r))
            => /\ r.reply \in ErrorReplies
               /\ NoMutation(r)
               /\ prompts[r.prompt].buttons # <<>>
               /\ prompts[r.prompt].result = NoResult

\* a moderator clicked a button whose index is past the end of the role sets
C16_Witness ==
    \E c \in Clicks :
        /\ Done(c)
        /\ click[c].perm = "mod"
        /\ Part(Split(click[c].customId), 0) = TagAssignSet
        /\ NumberOf(Part(Split(click[c].customId), 1)) >= Len(getVerifyRoles(click[c].cfg))
        /\ click[c].reply = "not-configured"

-----------------------------------------------------------------------------
(* Best-effort side effects *)

\* the prompt of click c has lost its buttons and carries a result line
Resolved(c) ==
    /\ prompts[click[c].prompt].buttons = <<>>
    /\ prompts[click[c].prompt].result # NoResult

\* the roles were granted and the target still holds the configured, existing
\* not-verified role: its removal was attempted and failed
RemovalFailed(c) ==
    LET r  == click[c]
        nv == Get(r.cfg, "notVerifiedRoleId")
    IN  /\ r.added # {}
        /\ ~r.removedNV
        /\ Truthy(nv)
        /\ roleMeta[nv].exists
        /\ nv \in member[TargetOf(r)].roles

\* C17: a failed removal of the not-verified role or a failed direct message
\* never changes the outcome of a verification action.  Whether the removal
\* succeeds or fails, the handler goes on to the prompt edit with no reply
\* and nothing else of its state changed; once the edit is done the moderator
\* has no error reply and the prompt is resolved, also when the removal or
\* the direct message failed.
C17_SideEffectFailuresSwallowed ==
    /\ [][\A c \in Clicks :
            (click[c].pc = "remove" /\ click'[c].pc # "remove")
                => click'[c] = [click[c] EXCEPT !.pc = "update",
                                                !.removedNV = click'[c].removedNV,
                                                !.failed = click'[c].failed]]_vars
    /\ [](\A c \in Clicks :
            (click[c].dm = "failed" \/ (RemovalFailed(c) /\ click[c].edited))
                => /\ click[c].pc = "done"
                   /\ click[c].edited
                   /\ click[c].reply = "none"
                   /\ Resolved(c))

\* the removal of the not-verified role and the direct message both failed
C17_Witness ==
    \E c \in Clicks :
        /\ Done(c)
        /\ RemovalFailed(c)
        /\ click[c].dm = "failed"
        /\ click[c].edited

-----------------------------------------------------------------------------
(* Deny *)

\* an authorised deny click whose target was fetched as a member of the guild
DenyOfMember(r) ==
    /\ Part(Split(r.customId), 0) = TagDeny
    /\ Authorised(r)
    /\ r.target = "member"

\* the submission the click's token names, in the verification channel
SubmissionOf(r) == <<Get(r.cfg, "verificationChannelId"), Part(Split(r.customId), 1)>>

\* the denial line: no roles, the target, and the clicker as moderator
DenialLine(r) ==
    [kind |-> "denied", roles |-> <<>>, target |-> Part(Split(r.customId), 2),
     by |-> r.by]

\* C18: an authorised deny click on a prompt whose target is in the guild
\* changes no role of any member; the fetch of the channel, the fetch of the
\* submission and its deletion, failing or not, always lead on to the prompt
\* edit; unless the handler ended in its generic error reply the prompt is
\* left with no buttons and the denial line naming the clicker; and when no
\* platform call failed the submission is gone.
C18_DenyResolves ==
    /\ [][\A c \in Clicks :
            (click[c].pc # "idle" /\ Part(Split(click[c].customId), 0) = TagDeny)
                => member' = member]_vars
    /\ [][\A c \in Clicks :
            (click[c].pc \in {"denyChan", "denyMsg", "denyDelete"}
                    /\ click'[c].pc # click[c].pc)
                => /\ click'[c].pc \in {"denyMsg", "denyDelete", "update"}
                   /\ click'[c].reply = "none"]_vars
    /\ [](\A c \in Clicks :
            LET r == click[c] IN
            (Done(c) /\ DenyOfMember(r))
                => /\ r.added = {} /\ ~r.removedNV
                   /\ r.reply # "error"
                        => /\ r.reply = "none"
                           /\ r.edited
                           /\ prompts[r.prompt].buttons = <<>>
                           /\ prompts[r.prompt].result = DenialLine(r)
                   /\ ~r.failed => SubmissionOf(r) \notin submissions)

\* a moderator denied a member holding the not-verified role; the submission
\* could not be deleted and is still there, and the prompt is resolved
C18_Witness ==
    \E c \in Clicks :
        LET r == click[c] IN
        /\ Done(c)
        /\ DenyOfMember(r)
        /\ r.perm = "mod"
        /\ NVRole \in member[TargetOf(r)].roles
        /\ SubmissionOf(r) \in submissions
        /\ r.edited
        /\ prompts[r.prompt].result.by = r.by

\* a moderator denied a member and the submission was deleted
C18_Deleted ==
    \E c \in Clicks :
        Done(c) /\ DenyOfMember(click[c]) /\ click[c].deleted /\ ~click[c].failed

-----------------------------------------------------------------------------
(* Help clicks *)

\* stored records with and without a staff channel and a moderator role
HelpConfigs ==
    {[verificationChannelId |-> "C1"],
     [verificationChannelId |-> "C1", modRoleId |-> ModRole],
     [verificationChannelId |-> "C1", staffChannelId |-> "C2"],
     [verificationChannelId |-> "C1", staffChannelId |-> "C2", modRoleId |-> ModRole]}

\* the record of a second guild, which has a staff channel
HelpConfigs_g2 == [verificationChannelId |-> "C2", staffChannelId |-> "C1"]

HelpInit ==
    /\ \E cfg \in HelpConfigs :
          guildSettings \in {[g \in {"g1"} |-> cfg],
                             [g \in Guilds |-> IF g = "g1" THEN cfg ELSE HelpConfigs_g2]}
    /\ disk = Stringify(guildSettings)
    /\ cmdReply = NoReply
    /\ ncmds = 0
    /\ EnvFixed
    /\ member = [k \in JoinKeys |->
                    IF k[2] = U1
                    THEN [inGuild |-> TRUE, ts |-> 1, pending |-> FALSE, roles |-> {}]
                    ELSE NotMember]
    /\ WelcomeIdle
    /\ MsgIdle
    /\ prompts = [m \in {M1} |-> NewPrompt("g1", U1, <<EncodeDeny(M1, U1)>>)]
    /\ submissions = {<<"C1", M1>>}
    /\ click = [c \in Clicks |-> IdleClick]
    /\ nclicks = 0
    /\ ev = NoEvent
    /\ PureIdle

\* the Help button of a welcome message is clicked by the member it was
\* posted for, whatever they are allowed to do
HelpRequest(c) ==
    \E g \in Guilds, u \in WelcomeUsers, perm \in Perms :
        ClickStart(c, g, <<>>, EncodeHelp(u), u, perm)

HelpNext ==
    \/ \E c \in Clicks : HelpRequest(c)
    \/ \E c \in Clicks : HelpFetched(c)
    \/ \E c \in Clicks : HelpSent(c)
    \/ \E c \in Clicks : ClickReturn(c)

SpecHelp == HelpInit /\ [][HelpNext]_vars

\* the handler of a help click in a guild with a stored record has returned
HelpDone(c) ==
    /\ Done(c)
    /\ StartsWith(click[c].customId, TagHelp \o <<Colon>>)
    /\ ~Unconfigured(click[c].guild)

\* C19: a help click in a configured guild, none of whose platform calls
\* failed, has notified the staff channel and acknowledged the clicker.
C19_HelpNotifiesStaff ==
    \A c \in Clicks :
        (HelpDone(c) /\ ~click[c].failed)
            => click[c].helpSent /\ click[c].reply = "help-ack"

\* the part of C19 about authorisation and effects: a help click never
\* fetches the clicker or the target, is never answered 'not allowed', and
\* changes no role, no prompt and no submission
HelpUnrestricted ==
    /\ [][(\E c \in Clicks : click[c].pc # "idle")
            => member' = member /\ prompts' = prompts /\ submissions' = submissions]_vars
    /\ [](\A c \in Clicks :
            HelpDone(c) => /\ NoMutation(click[c])
                           /\ ~click[c].fetched
                           /\ click[c].reply \in {"help-ack", "error"}
                           /\ click[c].reply = "error" => click[c].failed)

\* a member without the moderator role, in a guild that has one, asked for
\* help, was acknowledged, and no staff channel was there to notify
HelpUnheard ==
    \E c \in Clicks :
        /\ HelpDone(c)
        /\ click[c].perm = "none"
        /\ Truthy(Get(click[c].cfg, "modRoleId"))
        /\ ~click[c].failed
        /\ click[c].reply = "help-ack"
        /\ ~click[c].helpSent

-----------------------------------------------------------------------------
(* Failed writes of the settings file *)

\* a /setup command changed the stored settings and the file does not hold
\* them: the write of this update failed
WriteFailed ==
    /\ ncmds' = ncmds + 1
    /\ guildSettings' # guildSettings
    /\ disk' # Stringify(guildSettings')

\* the settings changed for the command's guild only, and its record kept
\* every field it had
MergedInMemory ==
    LET g == cmdReply'.guild IN
    /\ g \in DOMAIN guildSettings'
    /\ \A h \in DOMAIN guildSettings :
          /\ h \in DOMAIN guildSettings'
          /\ h # g => guildSettings'[h] = guildSettings[h]
          /\ h = g => DOMAIN guildSettings[h] \subseteq DOMAIN guildSettings'[h]

\* C20: when the write of the settings file fails during an update, the
\* update completes, the merged record is in memory, the command is answered
\* as successful, and the file holds what it held before the update.
C20_FailedWriteKeepsDisk ==
    [][WriteFailed => /\ MergedInMemory
                      /\ cmdReply'.kind = "ok"
                      /\ disk' = disk]_vars

\* the part of C20 about the command: a failed write is not raised
FailedWriteNotRaised ==
    [][WriteFailed => MergedInMemory /\ cmdReply'.kind = "ok"]_vars

\* a command was answered as successful and the file was cut short
FailedWriteTruncates ==
    /\ cmdReply.kind = "ok"
    /\ guildSettings # <<>>
    /\ disk = Truncated

-----------------------------------------------------------------------------
(* Isolation of the guilds' records *)

\* the fields a /setup subcommand writes
WrittenBy(sub) ==
    CASE sub = "verification"     -> {"verificationChannelId"}
      [] sub = "staff"            -> {"staffChannelId"}
      [] sub = "roles"            -> {"roleAId", "roleBId", "notVerifiedRoleId"}
      [] sub = "modrole"          -> {"modRoleId"}
      [] sub = "welcome"          -> {"welcomeTitle", "welcomeDescription", "welcomeMode"}
      [] sub = "verifyrole_add"   -> {"verifyRoles"}
      [] sub = "verifyrole_clear" -> {"verifyRoles"}
      [] OTHER                    -> {}

\* the role sets stored for guild g in settings
ListOf(settings, g) ==
    IF g \in DOMAIN settings /\ "verifyRoles" \in DOMAIN settings[g]
    THEN settings[g]["verifyRoles"] ELSE <<>>

\* C21: a /setup command of guild g, whatever commands of other guilds came
\* before it, leaves the record of every other guild as it was and creates a
\* record for no other guild; in g's record every field the subcommand does
\* not write keeps the value g's own record had, and a role set added by
\* verifyrole_add is appended to g's own previous list: nothing of another
\* guild's record or list shows up in g's.
C21_GuildsIsolated ==
    [][ncmds' = ncmds + 1 =>
          LET g   == cmdReply'.guild
              sub == cmdReply'.sub
          IN  /\ DOMAIN guildSettings' \subseteq DOMAIN guildSettings \cup {g}
              /\ \A h \in DOMAIN guildSettings :
                    /\ h \in DOMAIN guildSettings'
                    /\ h # g => guildSettings'[h] = guildSettings[h]
              /\ g \in DOMAIN guildSettings' =>
                    \A f \in DOMAIN guildSettings'[g] \ WrittenBy(sub) :
                        /\ g \in DOMAIN guildSettings
                        /\ f \in DOMAIN guildSettings[g]
                        /\ guildSettings'[g][f] = guildSettings[g][f]
              /\ (sub = "verifyrole_add" /\ cmdReply'.kind = "ok") =>
                    /\ Len(ListOf(guildSettings', g)) = Len(ListOf(guildSettings, g)) + 1
                    /\ SubSeq(ListOf(guildSettings', g), 1, Len(ListOf(guildSettings, g)))
                          = ListOf(guildSettings, g)]_vars

\* g2 has a role set stored, and then a role set was added for g1, which has
\* that one set and g2 still has its own
C21_Witness ==
    /\ cmdReply.guild = "g1"
    /\ cmdReply.sub = "verifyrole_add"
    /\ cmdReply.kind = "ok"
    /\ Len(ListOf(guildSettings, "g2")) = 1
    /\ Len(ListOf(guildSettings, "g1")) = 1
    /\ ListOf(guildSettings, "g1") # ListOf(guildSettings, "g2")

-----------------------------------------------------------------------------
(* Exceptions leaving the handlers *)

\* C22: no handler propagates an exception: the promise of no handler is
\* rejected.
C22_NothingPropagates == \A e \in ev : e.kind # "unhandledRejection"

\* the part of C22 about the failures the catch block sees: a click whose
\* platform call threw is answered with the generic error reply, and a
\* submission whose staff channel could not be fetched has no prompt
FailuresCaught ==
    /\ \A c \in Clicks : (Done(c) /\ click[c].reply = "error") => click[c].failed
    /\ \A id \in DOMAIN mlog : ~mlog[id].fetched => id \notin DOMAIN prompts

-----------------------------------------------------------------------------
(* Eviction of the dedup record *)

\* the join a welcome attempt is for
JoinOf(w) == <<w.guild, w.user, w.ts>>

\* C23: a trigger that refers to an already-welcomed join never gets past the
\* dedup test of maybePostWelcome, whatever joins, screenings, leaves and
\* deferred checks came before: no welcome attempt starts for a join that has
\* a welcome post.
C23_WelcomedJoinStaysWelcomed ==
    [][\A w \in wproc' \ wproc : w.pc = "fetch" => JoinOf(w) \notin DOMAIN posts]_vars

\* a join was welcomed a second time while its member was gone
SecondWelcomeAfterLeave ==
    \E k \in DOMAIN posts :
        /\ posts[k] >= 2
        /\ ~member[<<k[1], k[2]>>].inGuild
        /\ member[<<k[1], k[2]>>].ts = k[3]

-----------------------------------------------------------------------------
(* The deferred check of a departed member *)

\* the member of the join a welcome attempt is for is still in the guild
StillMember(w) ==
    /\ member[<<w.guild, w.user>>].inGuild
    /\ member[<<w.guild, w.user>>].ts = w.ts

\* C24: a welcome attempt for a member who has left stops at the visibility
\* test: it never goes on to channel.send, and so posts nothing and records
\* nothing in the dedup map.
C24_DepartedNotWelcomed ==
    [][\A w \in wproc' \ wproc : w.pc = "send" => StillMember(w)]_vars

\* the member joined and left, the deferred check then posted a welcome, and
\* the dedup map holds an entry for the departed member
DepartedWelcomed ==
    \E k \in DOMAIN welcomedJoinKey :
        /\ ~member[k].inGuild
        /\ timers = {}
        /\ <<k[1], k[2], welcomedJoinKey[k]>> \in DOMAIN posts
        /\ wlog = [guild |-> k[1], user |-> k[2], ts |-> welcomedJoinKey[k], gate |-> "pass"]
        /\ Event("update", k[1]) \notin ev

-----------------------------------------------------------------------------
(* Updates of the same guild *)

\* a verifyrole_add command was handled in this step and passed the role checks
AddHandled ==
    /\ ncmds' = ncmds + 1
    /\ cmdReply'.sub = "verifyrole_add"
    /\ cmdReply'.kind # "issues"

\* the list after the step is the list before it with one entry more, which
\* has the role ids of the command
Appended ==
    LET g   == cmdReply'.guild
        old == ListOf(guildSettings, g)
        new == ListOf(guildSettings', g)
    IN  /\ Len(new) = Len(old) + 1
        /\ \A i \in 1..Len(old) : new[i] = old[i]
        /\ new[Len(new)].roleIds = cmdReply'.roleIds

\* C25: a verifyrole_add whose role set differs from the role set of every
\* entry stored for the guild, in whatever order the commands of the guild
\* are handled, leaves the earlier entries in place and adds its own.
C25_BothEntriesKept ==
    [][(AddHandled /\ \A i \in 1..Len(ListOf(guildSettings, cmdReply'.guild)) :
                         {ListOf(guildSettings, cmdReply'.guild)[i].roleIds[j] :
                             j \in 1..Len(ListOf(guildSettings, cmdReply'.guild)[i].roleIds)}
                           # {cmdReply'.roleIds[j] : j \in 1..Len(cmdReply'.roleIds)})
          => Appended]_vars

\* the part of C25 about atomicity: every accepted verifyrole_add appends to
\* the list as it is when the command is handled, and no command other than
\* verifyrole_clear removes an entry
AcceptedAddAppends ==
    [][ncmds' = ncmds + 1 =>
          /\ (cmdReply'.sub = "verifyrole_add" /\ cmdReply'.kind = "ok") => Appended
          /\ cmdReply'.sub # "verifyrole_clear" =>
                \A h \in DOMAIN guildSettings :
                    \A i \in 1..Len(ListOf(guildSettings, h)) :
                        /\ i <= Len(ListOf(guildSettings', h))
                        /\ ListOf(guildSettings', h)[i] = ListOf(guildSettings, h)[i]]_vars

-----------------------------------------------------------------------------
(* Clicks on a prompt posted under an earlier configuration *)

\* the record of g1 when the prompt was posted
PromptConfig ==
    [verificationChannelId |-> "C1", staffChannelId |-> "C2", modRoleId |-> ModRole,
     notVerifiedRoleId |-> NVRole, verifyRoles |-> VetSets]

\* the record of g1 when the buttons are clicked: unchanged; the role sets
\* cleared and others added; the role sets cleared and the legacy roles set
LaterConfigs ==
    {PromptConfig,
     [PromptConfig EXCEPT !.verifyRoles = <<[roleIds |-> <<"R2">>, label |-> "Two"],
                                            [roleIds |-> <<"R1">>, label |-> "Vet"]>>],
     Spread([PromptConfig EXCEPT !.verifyRoles = <<>>],
            [roleAId |-> "R2", roleBId |-> "R1"])}

StaleInit ==
    /\ guildSettings \in {[g \in {"g1"} |-> cfg] : cfg \in LaterConfigs}
    /\ disk = Stringify(guildSettings)
    /\ cmdReply = NoReply
    /\ ncmds = 0
    /\ EnvFixed
    /\ member \in TargetWorlds
    /\ WelcomeIdle
    /\ MsgIdle
    /\ prompts = [m \in {M1} |-> NewPrompt("g1", U1, ButtonsOf(PromptConfig, M1, U1))]
    /\ submissions = {<<"C1", M1>>}
    /\ click = [c \in Clicks |-> IdleClick]
    /\ nclicks = 0
    /\ ev = NoEvent
    /\ PureIdle

SpecStale == StaleInit /\ [][ClickNext]_vars

\* C26: the roles an assign click grants are the existing roles of the entry
\* at the token's index in the role sets resolved from the guild's record at
\* click time, whatever the record was when the prompt was posted: a click
\* grants these roles or none, and an authorised click on a member, with no
\* call failing, grants them and names them in the result line.
C26_RolesOfClickTime ==
    \A c \in Clicks :
        LET r   == click[c]
            set == ExistingOf(ClickedSet(r))
        IN  (Done(c) /\ Part(Split(r.customId), 0) = TagAssignSet)
                => /\ r.cfg = guildSettings[r.guild]
                   /\ r.added \in {{}, set}
                   /\ (Authorised(r) /\ set # {} /\ r.target = "member" /\ ~r.failed)
                        => /\ r.added = set
                           /\ set \subseteq member[TargetOf(r)].roles
                           /\ SetOf(prompts[r.prompt].result.roles) = set

\* the first button of the prompt stood for R1 when the prompt was posted;
\* clicked after the role sets were changed it granted R2
C26_Witness ==
    \E c \in Clicks :
        /\ Done(c)
        /\ click[c].customId = EncodeAssignSet(0, M1, U1)
        /\ VetSets[1].roleIds = <<"R1">>
        /\ click[c].added = {"R2"}
        /\ click[c].edited

-----------------------------------------------------------------------------
(* Order of the effects of an assignment *)

\* the target of click c holds the configured, existing not-verified role
HoldsNotVerified(c) ==
    LET r  == click[c]
        nv == Get(r.cfg, "notVerifiedRoleId")
    IN  Truthy(nv) /\ roleMeta[nv].exists /\ nv \in member[TargetOf(r)].roles

\* the prompt of click c still shows its buttons and has no result line
Unresolved(c) ==
    /\ prompts[click[c].prompt].buttons # <<>>
    /\ prompts[click[c].prompt].result = NoResult

\* C27: the effects of an assign click come in order, each after the
\* previous one has completed.  While the role add is awaited nothing has
\* happened; the roles are added in one step, all existing roles of the set
\* at once; while the removal of the not-verified role is awaited the roles
\* are held and the prompt is untouched; when the prompt edit is awaited the
\* roles are held, the not-verified role is gone unless its removal failed,
\* and the prompt still shows its buttons; the direct message is attempted
\* only once the prompt is edited; and a prompt with an assignment line is
\* never seen while the target lacks a role it names.
C27_EffectsInOrder ==
    /\ [](\A c \in Clicks :
            LET r == click[c] IN
            (r.pc # "idle" /\ Part(Split(r.customId), 0) = TagAssignSet)
                => /\ r.pc = "add" => NoMutation(r) /\ r.dm = "none" /\ Unresolved(c)
                   /\ r.added # {} => r.added = ExistingOf(ClickedSet(r))
                   /\ r.pc = "remove"
                        => r.added # {} /\ ~r.removedNV /\ ~r.edited /\ r.dm = "none"
                                        /\ Unresolved(c)
                   /\ r.pc = "update"
                        => /\ r.added # {} /\ ~r.edited /\ r.dm = "none" /\ Unresolved(c)
                           /\ ~r.failed => ~HoldsNotVerified(c)
                   /\ r.removedNV => r.added # {}
                   /\ r.edited => r.added # {} /\ Resolved(c)
                   /\ r.dm # "none" => r.edited)
    /\ [](\A p \in DOMAIN prompts :
            prompts[p].result # NoResult /\ prompts[p].result.kind = "assigned"
                => SetOf(prompts[p].result.roles)
                      \subseteq member[<<prompts[p].guild, prompts[p].result.target>>].roles)
    /\ [][\A k \in JoinKeys :
            member'[k].roles \ member[k].roles # {}
                => \E c \in Clicks :
                      /\ click[c].pc = "add"
                      /\ member'[k].roles \ member[k].roles \subseteq click'[c].added
                      /\ click'[c].added = ExistingOf(ClickedSet(click[c]))]_vars

\* roles were added, the not-verified role was removed, the prompt was
\* edited and the direct message was sent
C27_Witness ==
    \E c \in Clicks :
        /\ Done(c)
        /\ click[c].added # {}
        /\ click[c].removedNV
        /\ click[c].edited
        /\ click[c].dm = "sent"
        /\ ~HoldsNotVerified(c)

-----------------------------------------------------------------------------
(* A failed role add *)

\* the handler of click c reached the role add, and the add was not made
AddFailed(c) ==
    /\ Done(c)
    /\ click[c].rolesToAdd # <<>>
    /\ click[c].added = {}

\* C28: when the role add of an assign click fails, the moderator gets the
\* ephemeral error reply and nothing else happens: in the step in which the
\* call fails no member's roles, no prompt and no submission change, and the
\* handler ends with the not-verified role not removed, the prompt not
\* edited and still showing its buttons, and no direct message sent.
C28_FailedAddSurfaced ==
    /\ [][\A c \in Clicks :
            (click[c].pc = "add" /\ click'[c].added = {} /\ click'[c].pc # "add")
                => /\ click'[c].pc = "done"
                   /\ click'[c].reply = "error"
                   /\ member' = member
                   /\ prompts' = prompts
                   /\ submissions' = submissions]_vars
    /\ [](\A c \in Clicks :
            AddFailed(c) => /\ click[c].reply = "error"
                            /\ NoMutation(click[c])
                            /\ click[c].dm = "none"
                            /\ Unresolved(c))

\* the role add of a moderator's click failed for a member who holds the
\* not-verified role, and still holds it
C28_Witness ==
    \E c \in Clicks :
        /\ AddFailed(c)
        /\ click[c].perm = "mod"
        /\ HoldsNotVerified(c)
        /\ click[c].customId \in SetOf(prompts[click[c].prompt].buttons)

-----------------------------------------------------------------------------
(* Marking a join as welcomed *)

\* the number of welcome posts for a join
PostsOf(p, k) == IF k \in DOMAIN p THEN p[k] ELSE 0

\* C29: the dedup map holds timestamp t for (guild, user) only if a welcome
\* for that join was sent; an entry is written only in a step that sends the
\* welcome of that join; and a step of a welcome attempt that sends nothing
\* (the gate, a failed fetch, a member who cannot view the channel, a failed
\* send) writes nothing.
C29_MarkedOnlyWhenSent ==
    /\ [](\A k \in DOMAIN welcomedJoinKey :
            <<k[1], k[2], welcomedJoinKey[k]>> \in DOMAIN posts)
    /\ [][\A k \in DOMAIN welcomedJoinKey' :
            (k \notin DOMAIN welcomedJoinKey \/ welcomedJoinKey[k] # welcomedJoinKey'[k])
                => PostsOf(posts', <<k[1], k[2], welcomedJoinKey'[k]>>)
                      = PostsOf(posts, <<k[1], k[2], welcomedJoinKey'[k]>>) + 1]_vars
    /\ [][(wproc' # wproc /\ posts' = posts)
            => welcomedJoinKey' = welcomedJoinKey]_vars

\* the deferred check of a join ended without a post and recorded nothing;
\* the attempt started by the end of screening has passed the same tests and
\* is about to send
C29_Witness ==
    \E w \in wproc :
        /\ wproc = {w}
        /\ w.src = "update"
        /\ w.pc = "send"
        /\ timers = {}
        /\ posts = <<>>
        /\ welcomedJoinKey = <<>>
        /\ StillMember(w)

-----------------------------------------------------------------------------
(* Every member who stays is welcomed *)

\* g1 has a verification channel; nobody has joined yet
LiveInit ==
    /\ guildSettings = [g \in {"g1"} |-> [verificationChannelId |-> "C1"]]
    /\ disk = Stringify(guildSettings)
    /\ cmdReply = NoReply
    /\ ncmds = 0
    /\ EnvFixed
    /\ HandlersIdle
    /\ PureIdle

\* GuildMemberUpdate for a member who joined while the bot was running: the
\* old snapshot comes from the cache, so the end of screening is seen and
\* maybePostWelcome is called
LiveUpdate ==
    /\ MemberUpdate("g1", U1)
    /\ member'[<<"g1", U1>>].pending # member[<<"g1", U1>>].pending
          => /\ wlog'.ts = member[<<"g1", U1>>].ts
             /\ wlog'.gate \in {"pass", "dedup"}
             /\ wlog'.gate = "pass"
                   => \E w \in wproc' : w.src = "update" /\ w.ts = member[<<"g1", U1>>].ts

\* the channel fetch succeeds: the attempt goes on to the send unless the
\* member cannot view the channel
LiveFetched ==
    /\ WelcomeFetched
    /\ \A w \in wproc \ wproc' :
          \/ [w EXCEPT !.pc = "send"] \in wproc'
          \/ FALSE \in CanViewOutcomes(w.guild, w.user, w.ts)

\* channel.send succeeds
LiveSent == WelcomeSent /\ posts' # posts

LiveNext ==
    \/ JoinEvent("g1", U1)
    \/ LiveUpdate
    \/ MemberRemove("g1", U1)
    \/ TimerFire
    \/ LiveFetched
    \/ LiveSent

\* the timer fires and the platform calls return
SpecLive ==
    /\ LiveInit
    /\ [][LiveNext]_vars
    /\ WF_vars(TimerFire)
    /\ WF_vars(LiveFetched)
    /\ WF_vars(LiveSent)

\* the member of join t of U1 in g1 is in the guild and has no screening
\* pending
Screened(t) ==
    /\ member[<<"g1", U1>>].inGuild
    /\ member[<<"g1", U1>>].ts = t
    /\ ~member[<<"g1", U1>>].pending

\* a welcome for join t was sent, or the member of join t is gone
WelcomedOrLeft(t) ==
    \/ <<"g1", U1, t>> \in DOMAIN posts
    \/ ~(member[<<"g1", U1>>].inGuild /\ member[<<"g1", U1>>].ts = t)

\* C30: when the timer fires and the platform calls succeed, every member who
\* joins a guild with a verification channel and has completed screening, or
\* had none, is eventually sent a welcome post unless they leave, whether the
\* screening ended before or after the deferred check fired.
C30_EventuallyWelcomed == \A t \in 1..MaxJoins : Screened(t) ~> WelcomedOrLeft(t)

\* the member joined with screening pending, both triggers are over, and the
\* welcome of the join was posted by the one whose gate decision came last
C30_Witness ==
    /\ Screened(1)
    /\ Event("update", "g1") \in ev
    /\ timers = {}
    /\ wproc = {}
    /\ wlog.gate = "pass"
    /\ PostsOf(posts, <<"g1", U1, 1>>) = 1

-----------------------------------------------------------------------------
(* Member updates that are not the end of a screening *)

\* the state of the program without the observer's event record
progVars == <<storeVars, envVars, member, clock, welcomeVars, msgVars, clickVars, pureVars>>

\* the step is the first GuildMemberUpdate seen in guild g
FirstUpdateIn(g) == Event("update", g) \in ev' \ ev

\* C31: a GuildMemberUpdate starts a welcome attempt only when the member goes
\* from pending to not pending, and an update that is not such a transition
\* starts none and changes nothing.
C31_OnlyScreeningTriggers ==
    /\ [][\A w \in wproc' \ wproc :
             w.src = "update" /\ w.pc = "fetch"
                => /\ member[<<w.guild, w.user>>].pending
                   /\ ~member'[<<w.guild, w.user>>].pending]_vars
    /\ [][\A g \in Guilds :
             FirstUpdateIn(g) /\ (\A u \in MemberIds : member'[<<g, u>>].pending = member[<<g, u>>].pending)
                => UNCHANGED progVars]_vars

\* an update of a member who was not pending has been handled in g1 and no
\* welcome attempt was made
C31_Witness ==
    /\ Event("update", "g1") \in ev
    /\ member[<<"g1", U1>>].inGuild
    /\ ~member[<<"g1", U1>>].pending
    /\ timers # {}
    /\ wproc = {}
    /\ wlog.gate = "none"

-----------------------------------------------------------------------------
(* Messages with attachments *)

UpperChars == <<"P", "N", "G", "J", "E", "I", "F", "W", "B">>
LowerChars == <<"p", "n", "g", "j", "e", "i", "f", "w", "b">>

\* the i flag of the regular expression: letters compare without case
Lower(s) ==
    [i \in 1..Len(s) |->
        IF \E k \in 1..Len(UpperChars) : UpperChars[k] = s[i]
        THEN LowerChars[CHOOSE k \in 1..Len(UpperChars) : UpperChars[k] = s[i]]
        ELSE s[i]]

EndsWith(s, p) == Len(s) >= Len(p) /\ SubSeq(s, Len(s) - Len(p) + 1, Len(s)) = p

Contains(s, p) == \E i \in 1..(Len(s) - Len(p) + 1) : SubSeq(s, i, i + Len(p) - 1) = p

ImagePrefix == <<"i", "m", "a", "g", "e", "/">>

\* png | jpe?g | gif | webp
ImageExts == {<<"p", "n", "g">>, <<"j", "p", "g">>, <<"j", "p", "e", "g">>,
              <<"g", "i", "f">>, <<"w", "e", "b", "p">>}

isImageAttachment_unanchored(att) ==
    \/ att.contentType # UndefinedS /\ StartsWith(att.contentType, ImagePrefix)
    \/ \E x \in ImageExts :
          Contains(Lower(IF att.name = UndefinedS THEN <<>> ELSE att.name), <<".">> \o x)

\* Boolean(att?.contentType?.startsWith('image/')) ||
\* /\.(png|jpe?g|gif|webp)$/i.test(att?.name || '')
isImageAttachment(att) ==
    \/ att.contentType # UndefinedS /\ StartsWith(att.contentType, ImagePrefix)
    \/ \E x \in ImageExts :
          EndsWith(Lower(IF att.name = UndefinedS THEN <<>> ELSE att.name), <<".">> \o x)

\* attachments.some(isImageAttachment)
HasImage(attachments) == \E i \in 1..Len(attachments) : isImageAttachment(attachments[i])

\* !staffChannel || staffChannel.type !== ChannelType.GuildText, negated
StaffUsable(ch) == ch # Null /\ ch = "GuildText"

ContentTypes ==
    {UndefinedS, ImagePrefix \o <<"p", "n", "g">>, <<"t", "e", "x", "t", "/", "x">>,
     <<"I", "m", "a", "g", "e", "/", "x">>, <<"i", "m", "a", "g", "e">>}

FileNames ==
    {UndefinedS, <<"a", ".", "p", "n", "g">>, <<"a", ".", "P", "n", "G">>, <<"a", ".", "j", "p", "g">>,
     <<"a", ".", "J", "P", "E", "G">>, <<"a", ".", "g", "i", "f">>,
     <<"a", ".", "w", "e", "b", "p">>, <<"a", ".", "t", "x", "t">>,
     <<"a", "p", "n", "g">>, <<"a", ".", "p", "n", "g", ".", "t", "x", "t">>,
     <<"a", ".", "j", "p", "e">>, <<".", "g", "i", "f">>}

Attachments == [contentType : ContentTypes, name : FileNames]

\* the attachments of the message: none, one, or a text file followed by one
AttachmentLists ==
    {<<>>} \cup {<<a>> : a \in Attachments}
           \cup {<<[contentType |-> <<"t", "e", "x", "t", "/", "x">>,
                    name |-> <<"a", ".", "t", "x", "t">>], a>> : a \in Attachments}

\* what client.channels.fetch(staffChannelId) finds
StaffChannelStates == {Null, "GuildText", "GuildVoice"}

AttachConfigs ==
    {[verificationChannelId |-> "C1", staffChannelId |-> "C2", verifyRoles |-> VetSets],
     [verificationChannelId |-> "C1"],
     [staffChannelId |-> "C2"]}

AttachInit ==
    /\ guildSettings \in {<<>>} \cup {[g \in {"g1"} |-> cfg] : cfg \in AttachConfigs}
    /\ disk = Stringify(guildSettings)
    /\ cmdReply = NoReply
    /\ ncmds = 0
    /\ EnvFixed
    /\ HandlersIdle
    /\ \E ch \in Channels, isBot \in BOOLEAN, atts \in AttachmentLists,
          staff \in StaffChannelStates :
          pin = [kind |-> "message", guild |-> "g1", channel |-> ch, author |-> U1,
                 isBot |-> isBot, attachments |-> atts, staff |-> staff]
    /\ pout = [kind |-> "none"]
    /\ pphase = 0

\* the message arrives
AttachMessage ==
    MessageCreate(pin.guild, pin.channel, pin.author, pin.isBot, HasImage(pin.attachments))

\* the fetch of the staff channel returns what the platform holds
AttachStaffFetched ==
    /\ MsgStaffFetched
    /\ \A m \in mproc \ mproc' : m.pc = "fetch" => mlog'[m.id].fetched = StaffUsable(pin.staff)

AttachNext ==
    \/ AttachMessage
    \/ AttachStaffFetched
    \/ MsgPromptSent

SpecAttach == AttachInit /\ [][AttachNext]_vars

\* the attachment has a content type starting with image/ or a file name
\* ending, in any letter case, in one of the five extensions
LooksLikeImage(att) ==
    \/ att.contentType # UndefinedS /\ StartsWith(att.contentType, ImagePrefix)
    \/ att.name # UndefinedS /\ \E x \in ImageExts : EndsWith(Lower(att.name), x)

\* the message is from a user, in the configured verification channel of a
\* guild with both channels configured, with a fetchable text staff channel
\* and an attachment that looks like an image
Qualifying ==
    LET cfg == IF pin.guild \in DOMAIN guildSettings THEN guildSettings[pin.guild] ELSE <<>> IN
    /\ ~pin.isBot
    /\ {"verificationChannelId", "staffChannelId"} \subseteq DOMAIN cfg
    /\ pin.channel = cfg["verificationChannelId"]
    /\ pin.staff = "GuildText"
    /\ \E i \in 1..Len(pin.attachments) : LooksLikeImage(pin.attachments[i])

\* C32: a message that is not a qualifying submission gets no staff prompt:
\* no send is issued and no prompt is posted.
C32_PromptOnlyForSubmissions ==
    ~Qualifying => /\ prompts = <<>>
                   /\ \A id \in DOMAIN mlog : mlog[id].sends = <<>>

\* a user's message in the verification channel whose only attachment is a
\* text file named a.png.txt was handled, and nothing was sent
C32_Witness ==
    /\ ~pin.isBot
    /\ pin.staff = "GuildText"
    /\ "g1" \in DOMAIN guildSettings
    /\ "staffChannelId" \in DOMAIN guildSettings["g1"]
    /\ pin.channel = Get(guildSettings["g1"], "verificationChannelId")
    /\ pin.attachments = <<[contentType |-> <<"t", "e", "x", "t", "/", "x">>,
                            name |-> <<"a", ".", "p", "n", "g", ".", "t", "x", "t">>]>>
    /\ nmsgs = 1
    /\ mproc = {}
    /\ prompts = <<>>

\* some qualifying submission was answered with a prompt
SubmissionPrompted == Qualifying /\ prompts # <<>>

-----------------------------------------------------------------------------
(* Shape of the stored role sets *)

\* the role ids of every stored entry of every guild
EntryRoleIds ==
    UNION {{VerifyRolesOf(guildSettings[g])[i].roleIds :
                i \in 1..Len(VerifyRolesOf(guildSettings[g]))} : g \in DOMAIN guildSettings}

\* C33: every stored verifyRoles entry holds between one and three role ids,
\* and no role id twice.
C33_RoleIdsAreSets ==
    \A ids \in EntryRoleIds :
        /\ Len(ids) \in 1..3
        /\ \A i, j \in 1..Len(ids) : ids[i] = ids[j] => i = j

\* every stored entry holds between one and three role ids
RoleIdsOneToThree == \A ids \in EntryRoleIds : Len(ids) \in 1..3

-----------------------------------------------------------------------------
(* Clicks whose target member is gone *)

\* the handler of click c is waiting for the fetch of the target member
AwaitsTarget(c) == click[c].pc = "targetFetch"

\* C34: when the fetch of the target member of an authorised assign or deny
\* click returns nothing, the handler ends with the reply that the user is no
\* longer in the server, and the step changes no member's roles, deletes no
\* submission and leaves every prompt, buttons included, as it was.
C34_GoneTargetSoftFailure ==
    /\ [][\A c \in Clicks :
             AwaitsTarget(c) /\ click'[c].target = "null"
                => /\ click'[c].pc = "done"
                   /\ click'[c].reply = "no-longer"
                   /\ UNCHANGED <<member, submissions, prompts>>]_vars
    /\ [](\A c \in Clicks :
             click[c].target = "null"
                => /\ click[c].added = {}
                   /\ ~click[c].removedNV
                   /\ ~click[c].deleted
                   /\ ~click[c].edited
                   /\ click[c].dm = "none")

\* an assign click on a prompt whose author has left was answered with the
\* no-longer reply, and the prompt still has its buttons
C34_Witness ==
    \E c \in Clicks :
        /\ click[c].pc = "done"
        /\ click[c].target = "null"
        /\ click[c].reply = "no-longer"
        /\ Decode(click[c].customId).action = TagAssignSet
        /\ <<click[c].guild, Decode(click[c].customId).targetUserId>> \in JoinKeys
        /\ ~member[<<click[c].guild, Decode(click[c].customId).targetUserId>>].inGuild
        /\ click[c].prompt \in DOMAIN prompts
        /\ prompts[click[c].prompt].buttons # <<>>

-----------------------------------------------------------------------------
(* Guilds without moderator role *)

\* the click was made in a guild whose configuration has no moderator role
NoModRole(r) == r.guild # "none" /\ "modRoleId" \notin DOMAIN r.cfg

\* C35: in a guild without modRoleId a click on an assign or deny button is
\* never held for the moderator check and never refused as not allowed,
\* whatever the clicker's roles and permissions.
C35_UnrestrictedWithoutModRole ==
    \A c \in Clicks :
        NoModRole(click[c]) /\ VerificationClick(click[c])
           => /\ click[c].pc # "authFetch"
              /\ click[c].reply # "not-allowed"

\* a member with neither role nor permission clicked an assign button in a
\* guild without moderator role: the roles were added and the prompt edited
C35_Witness ==
    \E c \in Clicks :
        /\ NoModRole(click[c])
        /\ click[c].perm = "none"
        /\ Decode(click[c].customId).action = TagAssignSet
        /\ click[c].pc = "done"
        /\ click[c].added # {}
        /\ click[c].edited

\* the same for a deny button: the submission was deleted and the prompt edited
UnrestrictedDeny ==
    \E c \in Clicks :
        /\ NoModRole(click[c])
        /\ click[c].perm = "none"
        /\ Decode(click[c].customId).action = TagDeny
        /\ click[c].pc = "done"
        /\ click[c].deleted
        /\ click[c].edited

-----------------------------------------------------------------------------
(* Who can change the store *)

SetupGate_guildOnly(g, manageGuild) == IF g = "none" THEN "server-only" ELSE "ok"

\* the guards of /setup: issued in a guild, by a member with Manage Server
SetupGate(g, manageGuild) ==
    IF g = "none" THEN "server-only"
    ELSE IF ~manageGuild THEN "need-manage-server"
    ELSE "ok"

\* g1 is configured and has a staff prompt; U2 is a member of g1. One user
\* issues the /setup commands: in g1, in g2 or in a direct message, with or
\* without Manage Server
AdminInit ==
    /\ guildSettings = [g \in {"g1"} |->
                           [verificationChannelId |-> "C1", staffChannelId |-> "C2",
                            verifyRoles |-> VetSets]]
    /\ disk = Stringify(guildSettings)
    /\ cmdReply = NoReply
    /\ ncmds = 0
    /\ EnvFixed
    /\ member = [k \in JoinKeys |->
                    IF k = <<"g1", U2>>
                    THEN [inGuild |-> TRUE, ts |-> 1, pending |-> FALSE, roles |-> {}]
                    ELSE NotMember]
    /\ WelcomeIdle
    /\ MsgIdle
    /\ prompts = [m \in {P1} |-> NewPrompt("g1", U2, ButtonsOf(guildSettings["g1"], P1, U2))]
    /\ submissions = {<<"C1", P1>>}
    /\ click = [c \in Clicks |-> IdleClick]
    /\ nclicks = 0
    /\ ev = NoEvent
    /\ \E g \in Guilds \cup {"none"}, manageGuild \in BOOLEAN :
          pin = [kind |-> "setup", guild |-> g, manageGuild |-> manageGuild]
    /\ pout = [kind |-> "none"]
    /\ pphase = 0

\* a /setup command of the issuer is handled
AdminSetup ==
    LET gate == SetupGate(pin.guild, pin.manageGuild) IN
    IF gate = "ok" THEN SetupCommand(pin.guild)
    ELSE ncmds < MaxCmds /\ ReplyOnly(Reply(pin.guild, "any", gate))

\* commands and events share the budget of MaxCmds; the next one arrives when
\* the handlers of the earlier ones have returned
AdminArrival == ncmds + Handled < MaxCmds /\ Alone

AdminNext ==
    \/ (AdminArrival /\ AdminSetup)
    \/ (AdminArrival /\ JoinEvent("g1", U1))
    \/ (Alone /\ TimerFire)
    \/ WelcomeFetched
    \/ WelcomeSent
    \/ (AdminArrival /\ MessageCreate("g1", "C1", U2, FALSE, TRUE))
    \/ MsgStaffFetched
    \/ MsgPromptSent
    \/ (AdminArrival /\ PromptClick)
    \/ AuthFetched("c1")
    \/ TargetFetched("c1")
    \/ AddResolved("c1")
    \/ DenyChanFetched("c1")
    \/ DenyMsgFetched("c1")
    \/ DenyDeleted("c1")
    \/ UpdateResolved("c1")
    \/ ClickReturn("c1")

SpecAdmin == AdminInit /\ [][AdminNext]_vars

\* the issuer is in a guild and holds Manage Server
MayConfigure == pin.guild \in Guilds /\ pin.manageGuild

\* C36: the store and the settings file change only in the step that handles
\* a /setup command issued in a guild by a member with Manage Server, and
\* then only the configuration of that guild changes; a /setup command from
\* anyone else is answered with a refusal and changes neither.
C36_OnlySetupWrites ==
    /\ [][(guildSettings' # guildSettings \/ disk' # disk)
             => /\ MayConfigure
                /\ ncmds' = ncmds + 1
                /\ cmdReply'.guild = pin.guild
                /\ \A h \in Guilds \ {pin.guild} :
                      getGuildConfig(guildSettings', h) = getGuildConfig(guildSettings, h)]_vars
    /\ [][(ncmds' # ncmds /\ ~MayConfigure)
             => /\ cmdReply'.kind = IF pin.guild = "none" THEN "server-only"
                                    ELSE "need-manage-server"
                /\ UNCHANGED <<guildSettings, disk>>]_vars

\* a member without Manage Server issued /setup in g1 after a click on the
\* prompt was handled: the command was refused and g1 has the configuration
\* it started with
C36_Witness ==
    /\ pin.guild = "g1"
    /\ ~pin.manageGuild
    /\ nclicks = 1
    /\ cmdReply.kind = "need-manage-server"
    /\ guildSettings["g1"] = [verificationChannelId |-> "C1", staffChannelId |-> "C2",
                              verifyRoles |-> VetSets]
    /\ disk = Stringify(guildSettings)

-----------------------------------------------------------------------------
(* What a /setup subcommand may change *)

ConfigFields == {"verificationChannelId", "staffChannelId", "roleAId", "roleBId",
                 "notVerifiedRoleId", "modRoleId", "welcomeTitle", "welcomeDescription",
                 "welcomeMode", "verifyRoles"}

\* the fields a subcommand is about
FieldsOf(sub) ==
    IF sub = "verification" THEN {"verificationChannelId"}
    ELSE IF sub = "staff" THEN {"staffChannelId"}
    ELSE IF sub = "roles" THEN {"roleAId", "roleBId", "notVerifiedRoleId"}
    ELSE IF sub = "modrole" THEN {"modRoleId"}
    ELSE IF sub = "welcome" THEN {"welcomeTitle", "welcomeDescription", "welcomeMode"}
    ELSE IF sub \in {"verifyrole_add", "verifyrole_clear"} THEN {"verifyRoles"}
    ELSE {}

\* the fields set from an optional option, and the values the option can carry
OptionalFields == {"roleAId", "roleBId", "notVerifiedRoleId", "welcomeTitle", "welcomeMode"}
OptionValues(f) ==
    IF f = "roleAId" THEN {"R1"}
    ELSE IF f = "roleBId" THEN {"R2"}
    ELSE IF f = "notVerifiedRoleId" THEN {NVRole}
    ELSE IF f = "welcomeTitle" THEN {"T1"}
    ELSE {"text"}

\* the step handles an accepted /setup command
Accepted == ncmds' = ncmds + 1 /\ cmdReply'.kind = "ok"

\* field f of guild g is what it was, or holds a value given with the option
\* (for the mode also the default, when no mode was stored)
KeptOrGiven(g, f) ==
    LET old == Get(getGuildConfig(guildSettings, g), f)
        new == Get(getGuildConfig(guildSettings', g), f)
    IN  \/ new = old
        \/ new \in OptionValues(f)
        \/ f = "welcomeMode" /\ old = Undef /\ new = "embed"

\* every field the subcommand is not about is unchanged
FrameKept ==
    [][Accepted =>
          \A f \in ConfigFields \ FieldsOf(cmdReply'.sub) :
              Get(getGuildConfig(guildSettings', cmdReply'.guild), f)
                 = Get(getGuildConfig(guildSettings, cmdReply'.guild), f)]_vars

\* the three fields of /setup roles keep their value unless a role is given
RolesKeptOrGiven ==
    [][Accepted /\ cmdReply'.sub = "roles" =>
          \A f \in FieldsOf("roles") : KeptOrGiven(cmdReply'.guild, f)]_vars

\* C37: an accepted /setup command leaves every field it is not about
\* unchanged, and a field set from an optional option keeps its prior value
\* unless the option gives a new one.
C37_OnlyGivenFieldsChange ==
    [][Accepted =>
          /\ \A f \in ConfigFields \ FieldsOf(cmdReply'.sub) :
                Get(getGuildConfig(guildSettings', cmdReply'.guild), f)
                   = Get(getGuildConfig(guildSettings, cmdReply'.guild), f)
          /\ \A f \in OptionalFields \cap FieldsOf(cmdReply'.sub) :
                KeptOrGiven(cmdReply'.guild, f)]_vars

-----------------------------------------------------------------------------
(* Role grant and prompt resolution *)

\* the handler of an assign click c has finished
AssignDone(c) == Done(c) /\ Decode(click[c].customId).action = TagAssignSet

\* C38: when the handler of an assign click has finished, the roles of the
\* set were added to the target exactly when the prompt's buttons were
\* cleared.
C38_GrantIffResolved ==
    \A c \in Clicks : AssignDone(c) => (click[c].added # {} <=> click[c].edited)

\* the buttons of a prompt are cleared by an assign click only after the
\* roles were added
ResolvedOnlyIfGranted ==
    \A c \in Clicks : AssignDone(c) /\ click[c].edited => click[c].added # {}

====
